---- MODULE Spec2Model ----
(***************************************************************************)
(* Model of the everest provisioner: the Kubernetes connector wrapper      *)
(* (src/cmd/root.go, package kubernetes) and the provisioning sequence     *)
(* (src/pkg/cli/cli.go).                                                   *)
(*                                                                         *)
(* Two specifications share this module:                                   *)
(*   SpecLock  concurrent callers of the wrapper's methods; each method is *)
(*             its sequence of lock operations and connector calls.        *)
(*   Spec      one thread of control running an orchestration call         *)
(*             (ProvisionCluster, InstallOperator, UpgradeOperator,        *)
(*             InstallOLMOperator, GetClusterType) against a platform.     *)
(***************************************************************************)
EXTENDS Integers, Sequences, FiniteSets, TLC

\* ------------------------------------------------------------------ bounds
\* Number of goroutines calling the wrapper concurrently.
NCallers == 2

\* pollDuration in units of pollInterval (5 minutes of 1 second in the
\* source, scaled down): the number of ticks a poll gets before its deadline.
pollDuration == 4

\* Documents in the manifests InstallOLMOperator reads, all files together.
MaxDocs == 2

\* Storage classes GetStorageClasses lists.
MaxClasses == 2

\* Nodes GetNodes lists, and taints on one node.
MaxNodes == 2

MaxTaints == 2

\* ------------------------------------------------------- program constants
pollInterval == 1

Callers == 1..NCallers

VARIABLES
    \* --- SpecLock: the shared *sync.RWMutex and the callers' positions
    readers,    \* callers holding the read lock
    writer,     \* the caller holding the write lock: empty or one caller
    wpending,   \* the caller that called Lock() and waits for the readers
                \* to leave: empty or one caller
    lmethod,    \* caller -> the method it executes, "idle" when none
    lpc,        \* caller -> index of its next instruction, 0 when idle
    busy,       \* caller -> TRUE while its connector call is in progress
    \* --- Spec: the platform behind the connector
    operatorGroup,  \* TRUE when the OperatorGroup exists
    subscription,   \* operator name -> state of its Subscription
    approved,       \* operator name -> Spec.Approved of its InstallPlan
    olmDeployment,  \* "absent" or the version of the olm-operator deployment
    \* --- Spec: the orchestration call in progress
    op,         \* the wrapper method executing, "idle" when none
    pc,         \* its next step, "done" once it has returned
    req,        \* its request: [Name, Channel]
    subs,       \* its local subs: "nil" or the Subscription last fetched
    polls,      \* invocations of the poll condition so far
    ticks,      \* the tick of the poll's ticker that set off the last one
    ip,         \* its local ip: the InstallPlan fetched
    trace,      \* the connector calls it issued, in order, with results
    ret,        \* "none" while running, then "ok" or "err"
    reterr,     \* the error returned: [msg, cause]
    \* --- Spec: locals of InstallOLMOperator
    files,      \* the manifests read: file -> its documents, in order
    found,      \* the Subscription resources filtered out of them
    idx,        \* index in found of the subscription being waited for
    \* --- Spec: ProvisionCluster
    prov,       \* "off", the step it is at, or "done"
    config,     \* [InstallOLM, Monitoring]
    channel,    \* its local channel
    params,     \* its local params: [Name, Channel]
    ptrace,     \* the calls it made, in order, with results
    pret,       \* "none" while running, then "ok" or "err"
    preterr,    \* the error it returned
    \* --- Spec: GetClusterType
    classes,    \* provisioners of the storage classes listed, in order
    ctype,      \* the ClusterType returned, "" before the call
    \* --- GetWorkerNodes
    nodes,      \* the nodes GetNodes listed, in order: [name, taints]
    workers,    \* the names of the nodes returned, in order
    \* --- ProvisionMonitoring, CleanupMonitoring
    path,       \* index in the file list of the file being handled
    attempt     \* the retry loop's i

lockVars == <<readers, writer, wpending, lmethod, lpc, busy>>

platformVars == <<operatorGroup, subscription, approved, olmDeployment>>

callVars == <<op, pc, req, subs, polls, ticks, ip, trace, ret, reterr, files, found, idx>>

provVars == <<prov, config, channel, params, ptrace, pret, preterr>>

ctVars == <<classes, ctype>>

wnVars == <<nodes, workers>>

monVars == <<path, attempt>>

\* Everything the orchestration specification owns.
orchVars == <<platformVars, callVars, provVars, ctVars, wnVars, monVars>>

vars == <<lockVars, orchVars>>

\* ------------------------------------------------- methods as instructions
\* An instruction is a lock operation or a connector call; next is the set
\* of instruction indexes control can reach from it (0: the method returns).
\* A deferred Unlock/RUnlock is the instruction every return path goes to.
Lock(n)      == [op |-> "Lock",    name |-> "",  next |-> {n}]
RLock(n)     == [op |-> "RLock",   name |-> "",  next |-> {n}]
Unlock(S)    == [op |-> "Unlock",  name |-> "",  next |-> S]
RUnlock(S)   == [op |-> "RUnlock", name |-> "",  next |-> S]
Read(nm, S)  == [op |-> "read",    name |-> nm,  next |-> S]
Write(nm, S) == [op |-> "write",   name |-> nm,  next |-> S]

\* RLock; defer RUnlock; return k.client.<nm>(...)
ReadLocked(nm)  == << RLock(2), Read(nm, {3}), RUnlock({0}) >>
\* Lock; defer Unlock; return k.client.<nm>(...)
WriteLocked(nm) == << Lock(2), Write(nm, {3}), Unlock({0}) >>
\* return k.client.<nm>(...) with no lock taken
Unlocked(nm)    == << Read(nm, {0}) >>

GetKubeconfig ==
    << RLock(2),
       Read("GetSecretsForServiceAccount", {3, 4}),
       Read("GenerateKubeConfig", {4}),
       RUnlock({0}) >>

ListDatabaseClusters == ReadLocked("ListDatabaseClusters")

GetDatabaseCluster == ReadLocked("GetDatabaseCluster")

RestartDatabaseCluster ==
    << Lock(2),
       Read("GetDatabaseCluster", {3, 4}),
       Write("ApplyObject", {4}),
       Unlock({0}) >>

PatchDatabaseCluster == WriteLocked("ApplyObject")

CreateDatabaseCluster == WriteLocked("ApplyObject")

DeleteDatabaseCluster ==
    << Lock(2),
       Read("GetDatabaseCluster", {3, 4}),
       Write("DeleteObject", {4}),
       Unlock({0}) >>

GetDefaultStorageClassName == ReadLocked("GetStorageClasses")

GetClusterTypeBody == ReadLocked("GetStorageClasses")

GetPSMDBOperatorVersion == ReadLocked("GetDeployment")

GetPXCOperatorVersion == ReadLocked("GetDeployment")

GetDBaaSOperatorVersion == ReadLocked("GetDeployment")

GetSecret == ReadLocked("GetSecret")

ListSecrets == ReadLocked("ListSecrets")

CreatePMMSecret == WriteLocked("ApplyObject")

CreateRestore == WriteLocked("ApplyObject")

GetPods == Unlocked("GetPods")

GetLogs == Unlocked("GetLogs")

GetEvents == Unlocked("GetEvents")

GetWorkerNodesBody == Unlocked("GetNodes")

GetPersistentVolumes == Unlocked("GetPersistentVolumes")

GetStorageClasses == Unlocked("GetStorageClasses")

ListSubscriptions == Unlocked("ListSubscriptions")

GetServerVersion == Unlocked("GetServerVersion")

GetClusterServiceVersion == ReadLocked("GetClusterServiceVersion")

ListClusterServiceVersion == ReadLocked("ListClusterServiceVersion")

\* RLock, not Lock, around the delete.
DeleteObject == << RLock(2), Write("DeleteObject", {3}), RUnlock({0}) >>

\* No lock anywhere.  1: found -> return; 6: no subscription -> 9;
\* 8: next subscription -> 7, last one -> 9; any error -> return.
InstallOLMOperatorBody ==
    << Read("GetDeployment", {0, 2}),
       Write("ApplyFile", {3, 0}),
       Write("ApplyFile", {4, 0}),
       Write("ApplyFile", {5, 0}),
       Read("DoRolloutWait", {6, 0}),
       Read("DoRolloutWait", {7, 9, 0}),
       Read("GetSubscriptionCSV", {8, 0}),
       Read("DoCSVWait", {7, 9, 0}),
       Read("DoRolloutWait", {0}) >>

\* The Unlock of the poll condition is not deferred: the error return of
\* the condition leaves with the lock held.
InstallOperatorBodyLeaky ==
    << Read("GetOperatorGroup", {2, 3}),
       Write("CreateOperatorGroup", {3, 0}),
       Write("CreateSubscriptionForCatalog", {4, 0}),
       Lock(5),
       Read("GetSubscription", {6, 7, 0}),
       Unlock({9}),
       Unlock({4, 0}),
       Unlock({0}),
       Read("GetInstallPlan", {10, 0}),
       Write("UpdateInstallPlan", {0}) >>

\* The lock is taken only inside the poll condition, and it is the write
\* lock.  5: condition true -> 6, not yet -> 7, error -> 8;
\* 7: poll again -> 4, deadline -> return.
InstallOperatorBody ==
    << Read("GetOperatorGroup", {2, 3}),
       Write("CreateOperatorGroup", {3, 0}),
       Write("CreateSubscriptionForCatalog", {4, 0}),
       Lock(5),
       Read("GetSubscription", {6, 7, 8}),
       Unlock({9}),
       Unlock({4, 0}),
       Unlock({0}),
       Read("GetInstallPlan", {10, 0}),
       Write("UpdateInstallPlan", {0}) >>

\* No lock.  1: not yet -> 1, true -> 2, error or deadline -> return;
\* 2: already approved or error -> return.
UpgradeOperatorBody ==
    << Read("GetSubscription", {1, 2, 0}),
       Read("GetInstallPlan", {3, 0}),
       Write("UpdateInstallPlan", {0}) >>

\* k.CreatePMMSecret (1-4) takes the lock; the vmagent apply (5) and the
\* manifest loop (6) do not.  6: next file or retry -> 6, done or
\* exhausted -> return.
ProvisionMonitoringBody ==
    << Lock(2),
       Write("ApplyObject", {3, 4}),
       Unlock({5}),
       Unlock({0}),
       Write("ApplyObject", {6, 0}),
       Write("ApplyFile", {6, 0}) >>

\* 1: next file -> 1, done or error -> return.
CleanupMonitoringBody == << Write("DeleteFile", {1, 0}) >>

Methods ==
    { "GetKubeconfig", "ListDatabaseClusters", "GetDatabaseCluster",
      "RestartDatabaseCluster", "PatchDatabaseCluster",
      "CreateDatabaseCluster", "DeleteDatabaseCluster",
      "GetDefaultStorageClassName", "GetClusterType",
      "GetPSMDBOperatorVersion", "GetPXCOperatorVersion",
      "GetDBaaSOperatorVersion", "GetSecret", "ListSecrets",
      "CreatePMMSecret", "CreateRestore", "GetPods", "GetLogs", "GetEvents",
      "GetWorkerNodes", "GetPersistentVolumes", "GetStorageClasses",
      "ListSubscriptions", "GetServerVersion", "GetClusterServiceVersion",
      "ListClusterServiceVersion", "DeleteObject", "InstallOLMOperator",
      "InstallOperator", "UpgradeOperator", "ProvisionMonitoring",
      "CleanupMonitoring" }

Body(m) ==
    CASE m = "GetKubeconfig"              -> GetKubeconfig
      [] m = "ListDatabaseClusters"       -> ListDatabaseClusters
      [] m = "GetDatabaseCluster"         -> GetDatabaseCluster
      [] m = "RestartDatabaseCluster"     -> RestartDatabaseCluster
      [] m = "PatchDatabaseCluster"       -> PatchDatabaseCluster
      [] m = "CreateDatabaseCluster"      -> CreateDatabaseCluster
      [] m = "DeleteDatabaseCluster"      -> DeleteDatabaseCluster
      [] m = "GetDefaultStorageClassName" -> GetDefaultStorageClassName
      [] m = "GetClusterType"             -> GetClusterTypeBody
      [] m = "GetPSMDBOperatorVersion"    -> GetPSMDBOperatorVersion
      [] m = "GetPXCOperatorVersion"      -> GetPXCOperatorVersion
      [] m = "GetDBaaSOperatorVersion"    -> GetDBaaSOperatorVersion
      [] m = "GetSecret"                  -> GetSecret
      [] m = "ListSecrets"                -> ListSecrets
      [] m = "CreatePMMSecret"            -> CreatePMMSecret
      [] m = "CreateRestore"              -> CreateRestore
      [] m = "GetPods"                    -> GetPods
      [] m = "GetLogs"                    -> GetLogs
      [] m = "GetEvents"                  -> GetEvents
      [] m = "GetWorkerNodes"             -> GetWorkerNodesBody
      [] m = "GetPersistentVolumes"       -> GetPersistentVolumes
      [] m = "GetStorageClasses"          -> GetStorageClasses
      [] m = "ListSubscriptions"          -> ListSubscriptions
      [] m = "GetServerVersion"           -> GetServerVersion
      [] m = "GetClusterServiceVersion"   -> GetClusterServiceVersion
      [] m = "ListClusterServiceVersion"  -> ListClusterServiceVersion
      [] m = "DeleteObject"               -> DeleteObject
      [] m = "InstallOLMOperator"         -> InstallOLMOperatorBody
      [] m = "InstallOperator"            -> InstallOperatorBody
      [] m = "UpgradeOperator"            -> UpgradeOperatorBody
      [] m = "ProvisionMonitoring"        -> ProvisionMonitoringBody
      [] m = "CleanupMonitoring"          -> CleanupMonitoringBody

\* The instruction caller c is at; only used when lpc[c] > 0.
Instr(c) == Body(lmethod[c])[lpc[c]]

At(c, o) == lmethod[c] # "idle" /\ lpc[c] > 0 /\ Instr(c).op = o

\* ------------------------------------------------------- sync.RWMutex
\* A read lock that only looks at writers still waiting, not at the holder.
CanRLockIgnoringHolder == wpending = {}

\* RLock blocks while a writer holds the lock or has called Lock().
CanRLock == writer = {} /\ wpending = {}

\* Lock() first excludes other writers and new readers ...
CanLockAnnounce == writer = {} /\ wpending = {}

\* ... then waits for the active readers to leave.
CanLockAcquire(c) == wpending = {c} /\ readers = {}

\* ------------------------------------------------------ SpecLock actions
\* Caller c goes on to instruction n; at 0 its method has returned.
Goto(c, n) ==
    /\ lpc' = [lpc EXCEPT ![c] = n]
    /\ lmethod' = [lmethod EXCEPT ![c] = IF n = 0 THEN "idle" ELSE @]

\* A goroutine calls a method of the wrapper.
CallMethod(c) ==
    /\ lmethod[c] = "idle"
    /\ \E m \in Methods :
         /\ lmethod' = [lmethod EXCEPT ![c] = m]
         /\ lpc' = [lpc EXCEPT ![c] = 1]
    /\ UNCHANGED <<orchVars, readers, writer, wpending, busy>>

DoRLock(c) ==
    /\ At(c, "RLock")
    /\ CanRLock
    /\ readers' = readers \cup {c}
    /\ \E n \in Instr(c).next : Goto(c, n)
    /\ UNCHANGED <<orchVars, writer, wpending, busy>>

DoRUnlock(c) ==
    /\ At(c, "RUnlock")
    /\ readers' = readers \ {c}
    /\ \E n \in Instr(c).next : Goto(c, n)
    /\ UNCHANGED <<orchVars, writer, wpending, busy>>

DoLockAnnounce(c) ==
    /\ At(c, "Lock")
    /\ CanLockAnnounce
    /\ wpending' = {c}
    /\ UNCHANGED <<orchVars, readers, writer, lmethod, lpc, busy>>

DoLockAcquire(c) ==
    /\ At(c, "Lock")
    /\ CanLockAcquire(c)
    /\ writer' = {c}
    /\ wpending' = {}
    /\ \E n \in Instr(c).next : Goto(c, n)
    /\ UNCHANGED <<orchVars, readers, busy>>

DoUnlock(c) ==
    /\ At(c, "Unlock")
    /\ writer' = {}
    /\ \E n \in Instr(c).next : Goto(c, n)
    /\ UNCHANGED <<orchVars, readers, wpending, busy>>

\* The connector call is issued ...
CallBegin(c) ==
    /\ At(c, "read") \/ At(c, "write")
    /\ ~busy[c]
    /\ busy' = [busy EXCEPT ![c] = TRUE]
    /\ UNCHANGED <<orchVars, readers, writer, wpending, lmethod, lpc>>

\* ... and returns, with whichever outcome the platform gives.
CallEnd(c) ==
    /\ At(c, "read") \/ At(c, "write")
    /\ busy[c]
    /\ busy' = [busy EXCEPT ![c] = FALSE]
    /\ \E n \in Instr(c).next : Goto(c, n)
    /\ UNCHANGED <<orchVars, readers, writer, wpending>>

LockFree ==
    /\ readers = {}
    /\ writer = {}
    /\ wpending = {}
    /\ lmethod = [c \in Callers |-> "idle"]
    /\ lpc = [c \in Callers |-> 0]
    /\ busy = [c \in Callers |-> FALSE]

OperatorNames ==
    { "victoriametrics-operator", "percona-xtradb-cluster-operator",
      "percona-server-mongodb-operator", "dbaas-operator" }

\* Nothing is being orchestrated.
CallIdle ==
    /\ op = "idle"
    /\ pc = "done"
    /\ req = [Name |-> "", Channel |-> ""]
    /\ subs = "nil"
    /\ polls = 0
    /\ ticks = 0
    /\ ip = [Name |-> "", Approved |-> FALSE]
    /\ trace = <<>>
    /\ ret = "none"
    /\ reterr = [msg |-> "", cause |-> ""]
    /\ files = [f \in {"crds.yaml", "olm.yaml", "percona-dbaas-catalog.yaml"} |-> <<>>]
    /\ found = <<>>
    /\ idx = 0
    /\ prov = "off"
    /\ config = [InstallOLM |-> FALSE, Monitoring |-> FALSE]
    /\ channel = ""
    /\ params = [Name |-> "", Channel |-> ""]
    /\ ptrace = <<>>
    /\ pret = "none"
    /\ preterr = [msg |-> "", cause |-> ""]
    /\ classes = <<>>
    /\ ctype = ""
    /\ nodes = <<>>
    /\ workers = <<>>
    /\ path = 0
    /\ attempt = 0

LockInit ==
    /\ LockFree
    /\ operatorGroup = FALSE
    /\ subscription = [n \in OperatorNames |-> "absent"]
    /\ approved = [n \in OperatorNames |-> FALSE]
    /\ olmDeployment = "absent"
    /\ CallIdle

LockNext ==
    \E c \in Callers :
        \/ CallMethod(c)
        \/ DoRLock(c)
        \/ DoRUnlock(c)
        \/ DoLockAnnounce(c)
        \/ DoLockAcquire(c)
        \/ DoUnlock(c)
        \/ CallBegin(c)
        \/ CallEnd(c)

SpecLock == LockInit /\ [][LockNext]_vars

\* ------------------------------------------------ claims on the lock
\* Caller c has a connector call of the given kind in progress.
InCall(c, kind) == At(c, kind) /\ busy[c]

\* Methods that only read: no write call and no write lock in their body.
ReadMethods ==
    { m \in Methods :
        \A i \in 1..Len(Body(m)) : Body(m)[i].op \in {"RLock", "RUnlock", "read"} }

\* Caller c is waiting to enter a read method that takes the read lock.
ReadWaiting(c) == At(c, "RLock") /\ lmethod[c] \in ReadMethods

\* Caller c executes a read operation: the call of a read-only method, or
\* the GetSubscription fetch of InstallOperator's poll condition.
InReadOperation(c) ==
    /\ InCall(c, "read")
    /\ \/ lmethod[c] \in ReadMethods
       \/ lmethod[c] = "InstallOperator" /\ Instr(c).name = "GetSubscription"

\* C1: no two write calls (ApplyObject, ApplyFile, DeleteObject, DeleteFile,
\* CreateSubscriptionForCatalog, CreateOperatorGroup, UpdateInstallPlan) of
\* different callers are in progress at the same time.
C1_WritesMutuallyExclusive ==
    \A c, d \in Callers : c # d => ~(InCall(c, "write") /\ InCall(d, "write"))

\* C2: while one caller executes a read operation, any other caller's read
\* can enter: a caller waiting at the read lock is not blocked.
C2_ReadNotBlockedByRead ==
    \A c, d \in Callers :
        (c # d /\ InReadOperation(c) /\ ReadWaiting(d)) => CanRLock

SubStates == {"absent", "pending", "unnamed", "resolved"}

NoErr == [msg |-> "", cause |-> ""]

\* errors.Wrap(err, msg): the message in front, the cause kept.
Wrap(c, m) == [msg |-> m, cause |-> c]

\* An error of the connector call c, returned as it is.
ErrOf(c) == [msg |-> "", cause |-> c]

\* wait.ErrWaitTimeout
ErrWaitTimeout == [msg |-> "timed out waiting for the condition", cause |-> ""]

\* One entry of the trace: the connector call, its argument, its result.
E(c, a, r) == [call |-> c, arg |-> a, res |-> r]

Last(q) == q[Len(q)]

FileNames == {"crds.yaml", "olm.yaml", "percona-dbaas-catalog.yaml"}

NoFiles == [f \in FileNames |-> <<>>]

\* var ip *v1alpha1.InstallPlan before GetInstallPlan has returned one.
NoPlan == [Name |-> "", Approved |-> FALSE]

\* The method returns r ("ok" or "err") with error e.
Return(r, e) ==
    /\ pc' = "done"
    /\ ret' = r
    /\ reterr' = e

\* A method of the wrapper is entered with request r.
Enter(o, first, r) ==
    /\ op' = o
    /\ pc' = first
    /\ req' = r
    /\ subs' = "nil"
    /\ polls' = 0
    /\ ticks' = 0
    /\ ip' = NoPlan
    /\ trace' = <<>>
    /\ ret' = "none"
    /\ reterr' = NoErr
    /\ files' = NoFiles
    /\ found' = <<>>
    /\ idx' = 0

\* What client.GetSubscription can return for operator n: an error, or the
\* Subscription as the platform has it (nil when there is none).
GetSubscriptionResults(n) ==
    {"err"} \cup (IF subscription[n] = "absent" THEN {"nil"} ELSE {subscription[n]})

\* What client.GetInstallPlan can return for the plan the fetched
\* Subscription s of operator n refers to.
GetInstallPlanResults(n, s) ==
    {"err"} \cup
    (IF s = "resolved" /\ subscription[n] = "resolved"
        THEN {IF approved[n] THEN "approved" ELSE "unapproved"}
        ELSE {})

\* The number of times a poll invokes its condition before wait.Poll gives
\* up with ErrWaitTimeout.
PollLimitDoubled == 2 * (pollDuration \div pollInterval)

PollLimit == pollDuration \div pollInterval

\* wait.Poll(pollInterval, pollDuration, condition): a ticker fires every
\* pollInterval, numbered 1, 2, ..., and at pollDuration the channel is
\* closed. The condition is invoked once for each tick received and once
\* more when the channel is found closed; a tick that fires while the
\* condition is still running (GetSubscription has not returned, or the
\* lock is not yet granted) is dropped. PollSignals(p, t) is what can set
\* off the next invocation after p invocations, the last one set off by
\* tick t: a later tick, or the close, written PollLimit + 1. The first
\* tick finds the poll waiting; the last one races with the close.
\* wait.PollImmediate instead: the first invocation precedes every tick.
PollSignalsImmediate(p, t) ==
    IF p = 0 THEN {0} ELSE ((t + 1)..PollLimit) \cup {PollLimit + 1}

PollSignals(p, t) ==
    (IF p = 0 THEN {1} \cap (1..PollLimit) ELSE (t + 1)..PollLimit)
    \cup (IF p > 0 \/ PollLimit <= 1 THEN {PollLimit + 1} ELSE {})

\* ---------------------------------------------------------- InstallOperator
\* The poll condition of InstallOperator on the result r of GetSubscription.
InstallConditionNoInstallCheck(r) ==
    IF r = "err" THEN "err"
    ELSE IF r = "nil" THEN "notyet"
    ELSE "true"

\* An error of GetSubscription is taken for not yet.
InstallConditionRetryOnError(r) ==
    IF r = "err" \/ r = "nil" \/ r = "pending" THEN "notyet"
    ELSE "true"

InstallCondition(r) ==
    IF r = "err" THEN "err"
    ELSE IF r = "nil" \/ r = "pending" THEN "notyet"
    ELSE "true"

\* The condition never reports the subscription as resolved.
UpgradeConditionNeverTrue(r) ==
    IF r = "err" THEN "err"
    ELSE "notyet"

\* The poll condition of UpgradeOperator.
UpgradeCondition(r) ==
    IF r = "err" THEN "err"
    ELSE IF r = "nil" \/ r = "pending" \/ r = "unnamed" THEN "notyet"
    ELSE "true"

\* The caller's entry into InstallOperator.
Call_InstallOperator ==
    /\ op = "idle"
    /\ prov = "off"
    /\ \E n \in OperatorNames, ch \in {"stable-v0", "stable-v1"} :
         Enter("InstallOperator", "GetOperatorGroup", [Name |-> n, Channel |-> ch])
    /\ UNCHANGED <<lockVars, platformVars, provVars, ctVars, wnVars, monVars>>

createOperatorGroupIfNeeded_Get ==
    /\ op = "InstallOperator"
    /\ pc = "GetOperatorGroup"
    /\ \E r \in (IF operatorGroup THEN {"ok", "err"} ELSE {"err"}) :
         /\ trace' = Append(trace, E("GetOperatorGroup", "percona-operators-group", r))
         /\ pc' = IF r = "ok" THEN "CreateSubscriptionForCatalog"
                  ELSE "CreateOperatorGroup"
    /\ UNCHANGED <<lockVars, platformVars, op, req, subs, polls, ticks, ip, ret, reterr, files, found, idx, provVars, ctVars, wnVars, monVars>>

createOperatorGroupIfNeeded_Create ==
    /\ op = "InstallOperator"
    /\ pc = "CreateOperatorGroup"
    /\ \E r \in (IF operatorGroup THEN {"err"} ELSE {"ok", "err"}) :
         /\ trace' = Append(trace, E("CreateOperatorGroup", "percona-operators-group", r))
         /\ IF r = "ok"
               THEN /\ operatorGroup' = TRUE
                    /\ pc' = "CreateSubscriptionForCatalog"
                    /\ UNCHANGED <<ret, reterr>>
               ELSE /\ Return("err", ErrOf("CreateOperatorGroup"))
                    /\ UNCHANGED operatorGroup
    /\ UNCHANGED <<lockVars, subscription, approved, olmDeployment, op, req, subs, polls, ticks, ip, files, found, idx, provVars, ctVars, wnVars, monVars>>

InstallOperator_CreateSubscriptionForCatalogNoCheck ==
    /\ op = "InstallOperator"
    /\ pc = "CreateSubscriptionForCatalog"
    /\ \E r \in {"ok", "err"} :
         /\ trace' = Append(trace, E("CreateSubscriptionForCatalog", req.Name, r))
         /\ pc' = "Poll"
         /\ IF r = "ok"
               THEN /\ subscription' = [subscription EXCEPT ![req.Name] =
                                           IF @ = "absent" THEN "pending" ELSE @]
                    /\ subs' = subscription'[req.Name]
               ELSE UNCHANGED <<subscription, subs>>
         /\ UNCHANGED <<ret, reterr>>
    /\ UNCHANGED <<lockVars, operatorGroup, approved, olmDeployment, op, req, polls, ticks, ip, files, found, idx, provVars, ctVars, wnVars, monVars>>

InstallOperator_CreateSubscriptionForCatalog ==
    /\ op = "InstallOperator"
    /\ pc = "CreateSubscriptionForCatalog"
    /\ \E r \in {"ok", "err"} :
         /\ trace' = Append(trace, E("CreateSubscriptionForCatalog", req.Name, r))
         /\ IF r = "ok"
               THEN /\ subscription' = [subscription EXCEPT ![req.Name] =
                                           IF @ = "absent" THEN "pending" ELSE @]
                    /\ subs' = subscription'[req.Name]
                    /\ pc' = "Poll"
                    /\ UNCHANGED <<ret, reterr>>
               ELSE /\ Return("err", Wrap("CreateSubscriptionForCatalog",
                                "cannot create a susbcription to install the operator"))
                    /\ UNCHANGED <<subscription, subs>>
    /\ UNCHANGED <<lockVars, operatorGroup, approved, olmDeployment, op, req, polls, ticks, ip, files, found, idx, provVars, ctVars, wnVars, monVars>>

\* One invocation of the poll condition: Lock, GetSubscription, Unlock.
InstallOperator_Poll ==
    /\ op = "InstallOperator"
    /\ pc = "Poll"
    /\ LockFree
    /\ \E t \in PollSignals(polls, ticks), r \in GetSubscriptionResults(req.Name) :
         /\ trace' = Append(trace, E("GetSubscription", req.Name, r))
         /\ subs' = IF r = "err" THEN "nil" ELSE r
         /\ polls' = polls + 1
         /\ ticks' = t
         /\ CASE InstallCondition(r) = "true" ->
                   /\ pc' = "GetInstallPlan"
                   /\ UNCHANGED <<ret, reterr>>
              [] InstallCondition(r) = "err" ->
                   Return("err", ErrOf("GetSubscription"))
              [] InstallCondition(r) = "notyet" ->
                   IF t > PollLimit
                      THEN Return("err", ErrWaitTimeout)
                      ELSE /\ pc' = "Poll"
                           /\ UNCHANGED <<ret, reterr>>
    /\ UNCHANGED <<lockVars, platformVars, op, req, ip, files, found, idx, provVars, ctVars, wnVars, monVars>>

InstallOperator_GetInstallPlan ==
    /\ op = "InstallOperator"
    /\ pc = "GetInstallPlan"
    /\ IF subs = "nil"
          THEN /\ Return("err", [msg |-> "cannot get an install plan for the operator subscription",
                                 cause |-> ""])
               /\ UNCHANGED trace
               /\ UNCHANGED ip
          ELSE \E r \in GetInstallPlanResults(req.Name, subs) :
                 /\ trace' = Append(trace, E("GetInstallPlan", req.Name, r))
                 /\ IF r = "err"
                       THEN /\ Return("err", ErrOf("GetInstallPlan"))
                            /\ UNCHANGED ip
                       ELSE /\ ip' = [Name |-> req.Name, Approved |-> (r = "approved")]
                            /\ pc' = "UpdateInstallPlan"
                            /\ UNCHANGED <<ret, reterr>>
    /\ UNCHANGED <<lockVars, platformVars, op, req, subs, polls, ticks, files, found, idx, provVars, ctVars, wnVars, monVars>>

\* The plan is written back as it was fetched.
InstallOperator_UpdateInstallPlanAsFetched ==
    /\ op = "InstallOperator"
    /\ pc = "UpdateInstallPlan"
    /\ \E r \in {"ok", "err"} :
         /\ trace' = Append(trace, E("UpdateInstallPlan", req.Name, r))
         /\ IF r = "ok"
               THEN /\ approved' = [approved EXCEPT ![req.Name] = ip.Approved]
                    /\ Return("ok", NoErr)
               ELSE /\ Return("err", ErrOf("UpdateInstallPlan"))
                    /\ UNCHANGED approved
    /\ UNCHANGED <<lockVars, operatorGroup, subscription, olmDeployment, op, req, subs, polls, ticks, ip, files, found, idx, provVars, ctVars, wnVars, monVars>>

\* ip.Spec.Approved = true; UpdateInstallPlan(ip); return err
InstallOperator_UpdateInstallPlan ==
    /\ op = "InstallOperator"
    /\ pc = "UpdateInstallPlan"
    /\ \E r \in {"ok", "err"} :
         /\ ip' = [ip EXCEPT !.Approved = TRUE]
         /\ trace' = Append(trace, E("UpdateInstallPlan", req.Name, r))
         /\ IF r = "ok"
               THEN /\ approved' = [approved EXCEPT ![req.Name] = ip'.Approved]
                    /\ Return("ok", NoErr)
               ELSE /\ Return("err", ErrOf("UpdateInstallPlan"))
                    /\ UNCHANGED approved
    /\ UNCHANGED <<lockVars, operatorGroup, subscription, olmDeployment, op, req, subs, polls, ticks, files, found, idx, provVars, ctVars, wnVars, monVars>>

\* ---------------------------------------------------------- UpgradeOperator
Call_UpgradeOperator ==
    /\ op = "idle"
    /\ prov = "off"
    /\ \E n \in OperatorNames :
         Enter("UpgradeOperator", "Poll", [Name |-> n, Channel |-> ""])
    /\ UNCHANGED <<lockVars, platformVars, provVars, ctVars, wnVars, monVars>>

\* A poll that ran into its deadline is started over.
UpgradeOperator_PollAgain ==
    /\ op = "UpgradeOperator"
    /\ pc = "Poll"
    /\ \E t \in PollSignals(polls, ticks), r \in GetSubscriptionResults(req.Name) :
         /\ subs' = IF r = "err" THEN "nil" ELSE r
         /\ CASE UpgradeCondition(r) = "true" ->
                   /\ trace' = Append(trace, E("GetSubscription", req.Name, r))
                   /\ polls' = polls + 1
                   /\ ticks' = t
                   /\ pc' = "GetInstallPlan"
                   /\ UNCHANGED <<ret, reterr>>
              [] UpgradeCondition(r) = "err" ->
                   /\ trace' = Append(trace, E("GetSubscription", req.Name, r))
                   /\ polls' = polls + 1
                   /\ ticks' = t
                   /\ Return("err", ErrOf("GetSubscription"))
              [] UpgradeCondition(r) = "notyet" ->
                   /\ pc' = "Poll"
                   /\ UNCHANGED <<ret, reterr>>
                   /\ IF t > PollLimit
                         THEN /\ trace' = <<>>
                              /\ polls' = 0
                              /\ ticks' = 0
                         ELSE /\ trace' = Append(trace, E("GetSubscription", req.Name, r))
                              /\ polls' = polls + 1
                              /\ ticks' = t
    /\ UNCHANGED <<lockVars, platformVars, op, req, ip, files, found, idx, provVars, ctVars, wnVars, monVars>>

\* One invocation of the poll condition: GetSubscription, no lock.
UpgradeOperator_Poll ==
    /\ op = "UpgradeOperator"
    /\ pc = "Poll"
    /\ \E t \in PollSignals(polls, ticks), r \in GetSubscriptionResults(req.Name) :
         /\ trace' = Append(trace, E("GetSubscription", req.Name, r))
         /\ subs' = IF r = "err" THEN "nil" ELSE r
         /\ polls' = polls + 1
         /\ ticks' = t
         /\ CASE UpgradeCondition(r) = "true" ->
                   /\ pc' = "GetInstallPlan"
                   /\ UNCHANGED <<ret, reterr>>
              [] UpgradeCondition(r) = "err" ->
                   Return("err", ErrOf("GetSubscription"))
              [] UpgradeCondition(r) = "notyet" ->
                   IF t > PollLimit
                      THEN Return("err", ErrWaitTimeout)
                      ELSE /\ pc' = "Poll"
                           /\ UNCHANGED <<ret, reterr>>
    /\ UNCHANGED <<lockVars, platformVars, op, req, ip, files, found, idx, provVars, ctVars, wnVars, monVars>>

\* The install plan is fetched and written back whether or not it was
\* already approved.
UpgradeOperator_GetInstallPlanAlwaysApprove ==
    /\ op = "UpgradeOperator"
    /\ pc = "GetInstallPlan"
    /\ IF subs \in {"nil", "pending", "unnamed"}
          THEN /\ Return("err", [msg |-> "cannot get subscription for operator", cause |-> ""])
               /\ UNCHANGED trace
               /\ UNCHANGED ip
          ELSE \E r \in GetInstallPlanResults(req.Name, subs) :
                 /\ trace' = Append(trace, E("GetInstallPlan", req.Name, r))
                 /\ IF r = "err"
                       THEN /\ Return("err", Wrap("GetInstallPlan", "cannot get install plan to upgrade"))
                            /\ UNCHANGED ip
                       ELSE /\ ip' = [Name |-> req.Name, Approved |-> (r = "approved")]
                            /\ pc' = "UpdateInstallPlan"
                            /\ UNCHANGED <<ret, reterr>>
    /\ UNCHANGED <<lockVars, platformVars, op, req, subs, polls, ticks, files, found, idx, provVars, ctVars, wnVars, monVars>>

UpgradeOperator_GetInstallPlan ==
    /\ op = "UpgradeOperator"
    /\ pc = "GetInstallPlan"
    /\ IF subs \in {"nil", "pending", "unnamed"}
          THEN /\ Return("err", [msg |-> "cannot get subscription for operator", cause |-> ""])
               /\ UNCHANGED trace
               /\ UNCHANGED ip
          ELSE \E r \in GetInstallPlanResults(req.Name, subs) :
                 /\ trace' = Append(trace, E("GetInstallPlan", req.Name, r))
                 /\ ip' = IF r = "err" THEN ip
                          ELSE [Name |-> req.Name, Approved |-> (r = "approved")]
                 /\ CASE r = "err" ->
                           Return("err", Wrap("GetInstallPlan", "cannot get install plan to upgrade"))
                      [] r = "approved" ->
                           Return("ok", NoErr)
                      [] r = "unapproved" ->
                           /\ pc' = "UpdateInstallPlan"
                           /\ UNCHANGED <<ret, reterr>>
    /\ UNCHANGED <<lockVars, platformVars, op, req, subs, polls, ticks, files, found, idx, provVars, ctVars, wnVars, monVars>>

UpgradeOperator_UpdateInstallPlan ==
    /\ op = "UpgradeOperator"
    /\ pc = "UpdateInstallPlan"
    /\ \E r \in {"ok", "err"} :
         /\ ip' = [ip EXCEPT !.Approved = TRUE]
         /\ trace' = Append(trace, E("UpdateInstallPlan", req.Name, r))
         /\ IF r = "ok"
               THEN /\ approved' = [approved EXCEPT ![req.Name] = ip'.Approved]
                    /\ Return("ok", NoErr)
               ELSE /\ Return("err", ErrOf("UpdateInstallPlan"))
                    /\ UNCHANGED approved
    /\ UNCHANGED <<lockVars, operatorGroup, subscription, olmDeployment, op, req, subs, polls, ticks, files, found, idx, provVars, ctVars, wnVars, monVars>>


\* ------------------------------------------------------ InstallOLMOperator
\* A decoded resource: its group/version/kind and its name.
SubscriptionGVK == <<"operators.coreos.com", "v1alpha1", "Subscription">>

Resources ==
    { [gvk |-> <<"apps", "v1", "Deployment">>, name |-> "olm-operator"],
      [gvk |-> SubscriptionGVK, name |-> "sub-a"],
      [gvk |-> SubscriptionGVK, name |-> "sub-b"] }

SeqsUpTo(S, k) == UNION { [1..n -> S] : n \in 0..k }

\* The contents the three manifest files can have.
FileContents ==
    { f \in [FileNames -> SeqsUpTo(Resources, MaxDocs)] :
        Len(f["crds.yaml"]) + Len(f["olm.yaml"]) + Len(f["percona-dbaas-catalog.yaml"])
            <= MaxDocs }

RECURSIVE filterResources(_, _)
filterResources(resources, gvk) ==
    IF resources = <<>> THEN <<>>
    ELSE IF Head(resources).gvk = gvk
         THEN <<Head(resources)>> \o filterResources(Tail(resources), gvk)
         ELSE filterResources(Tail(resources), gvk)

\* The key client.GetSubscriptionCSV resolves for a subscription.
CSVKey(sub) == IF sub = "sub-a" THEN "csv-a" ELSE "csv-b"

\* What client.GetDeployment("olm-operator") can return: an error, a
\* deployment without a name, or the deployment the platform has.
GetDeploymentResults ==
    {"err", "empty"} \cup (IF olmDeployment = "absent" THEN {} ELSE {olmDeployment})

\* err == nil && deployment != nil && deployment.ObjectMeta.Name != ""
AlreadyInstalledAtVersion(r) == r = "v0.25.0"

AlreadyInstalled(r) == r \notin {"err", "empty"}

Call_InstallOLMOperator ==
    /\ op = "idle"
    /\ prov = "off"
    /\ Enter("InstallOLMOperator", "GetDeployment", [Name |-> "", Channel |-> ""])
    /\ UNCHANGED <<lockVars, platformVars, provVars, ctVars, wnVars, monVars>>

InstallOLMOperator_GetDeployment ==
    /\ op = "InstallOLMOperator"
    /\ pc = "GetDeployment"
    /\ \E r \in GetDeploymentResults :
         /\ trace' = Append(trace, E("GetDeployment", "olm-operator", r))
         /\ IF AlreadyInstalled(r)
               THEN /\ Return("ok", NoErr)
                    /\ UNCHANGED files
               ELSE /\ pc' = "ApplyFile"
                    /\ \E f \in FileContents : files' = f
                    /\ UNCHANGED <<ret, reterr>>
    /\ UNCHANGED <<lockVars, platformVars, op, req, subs, polls, ticks, ip, found, idx, provVars, ctVars, wnVars, monVars>>

\* The controller applied before the definitions it needs.
ApplyOrderControllerFirst == << "olm.yaml", "crds.yaml", "percona-dbaas-catalog.yaml" >>

\* The file the next ApplyFile applies, by the number of applies so far.
ApplyOrder == << "crds.yaml", "olm.yaml", "percona-dbaas-catalog.yaml" >>

Applies == Len(SelectSeq(trace, LAMBDA e : e.call = "ApplyFile"))

\* fs.ReadFile of the next manifest, then client.ApplyFile of it.
InstallOLMOperator_ApplyFile ==
    /\ op = "InstallOLMOperator"
    /\ pc = "ApplyFile"
    /\ \E r \in {"ok", "err"} :
         /\ trace' = Append(trace, E("ApplyFile", ApplyOrder[Applies + 1], r))
         /\ IF r = "err"
               THEN Return("err", Wrap("ApplyFile", "cannot apply file"))
               ELSE /\ pc' = IF Applies + 1 = Len(ApplyOrder) THEN "DoRolloutWait"
                             ELSE "ApplyFile"
                    /\ UNCHANGED <<ret, reterr>>
    /\ UNCHANGED <<lockVars, platformVars, op, req, subs, polls, ticks, ip, files, found, idx,
                   provVars, ctVars, wnVars, monVars>>

\* The deployments whose rollout is waited for before the subscriptions.
CoreRollouts == << "olm-operator", "catalog-operator" >>

Rollouts == Len(SelectSeq(trace, LAMBDA e : e.call = "DoRolloutWait"))

InstallOLMOperator_DoRolloutWait ==
    /\ op = "InstallOLMOperator"
    /\ pc = "DoRolloutWait"
    /\ \E r \in {"ok", "err"} :
         /\ trace' = Append(trace, E("DoRolloutWait", CoreRollouts[Rollouts + 1], r))
         /\ IF r = "err"
               THEN Return("err", Wrap("DoRolloutWait", "error while waiting for deployment rollout"))
               ELSE /\ pc' = IF Rollouts + 1 = Len(CoreRollouts) THEN "decodeResources"
                             ELSE "DoRolloutWait"
                    /\ UNCHANGED <<ret, reterr>>
    /\ UNCHANGED <<lockVars, platformVars, op, req, subs, polls, ticks, ip, files, found, idx,
                   provVars, ctVars, wnVars, monVars>>

\* The manifests whose resources are decoded and filtered.
DecodedFiles == << "crds.yaml", "olm.yaml" >>

\* decodeResources of crdFile and olmFile, then filterResources; a document
\* that does not decode fails the whole decode.
InstallOLMOperator_decodeResources ==
    /\ op = "InstallOLMOperator"
    /\ pc = "decodeResources"
    /\ \E r \in {"ok", "crd", "olm"} :
         CASE r = "crd" ->
                /\ Return("err", Wrap("decodeResources", "cannot decode crd resources"))
                /\ UNCHANGED <<found, idx>>
           [] r = "olm" ->
                /\ Return("err", Wrap("decodeResources", "cannot decode olm resources"))
                /\ UNCHANGED <<found, idx>>
           [] r = "ok" ->
                /\ found' = filterResources(files[DecodedFiles[1]] \o files[DecodedFiles[2]],
                                            SubscriptionGVK)
                /\ idx' = 1
                /\ pc' = IF found' = <<>> THEN "packageserver" ELSE "GetSubscriptionCSV"
                /\ UNCHANGED <<ret, reterr>>
    /\ UNCHANGED <<lockVars, platformVars, op, req, subs, polls, ticks, ip, trace, files,
                   provVars, ctVars, wnVars, monVars>>

InstallOLMOperator_GetSubscriptionCSV ==
    /\ op = "InstallOLMOperator"
    /\ pc = "GetSubscriptionCSV"
    /\ \E r \in {"ok", "err"} :
         /\ trace' = Append(trace, E("GetSubscriptionCSV", found[idx].name, r))
         /\ IF r = "err"
               THEN Return("err", [msg |-> "subscription failed to install CSV",
                                   cause |-> "GetSubscriptionCSV"])
               ELSE /\ pc' = "DoCSVWait"
                    /\ UNCHANGED <<ret, reterr>>
    /\ UNCHANGED <<lockVars, platformVars, op, req, subs, polls, ticks, ip, files, found, idx,
                   provVars, ctVars, wnVars, monVars>>

InstallOLMOperator_DoCSVWait ==
    /\ op = "InstallOLMOperator"
    /\ pc = "DoCSVWait"
    /\ \E r \in {"ok", "err"} :
         /\ trace' = Append(trace, E("DoCSVWait", CSVKey(found[idx].name), r))
         /\ IF r = "err"
               THEN /\ Return("err", [msg |-> "clusterserviceversion failed to reach 'Succeeded' phase",
                                      cause |-> ""])
                    /\ UNCHANGED idx
               ELSE /\ idx' = idx + 1
                    /\ pc' = IF idx = Len(found) THEN "packageserver" ELSE "GetSubscriptionCSV"
                    /\ UNCHANGED <<ret, reterr>>
    /\ UNCHANGED <<lockVars, platformVars, op, req, subs, polls, ticks, ip, files, found,
                   provVars, ctVars, wnVars, monVars>>

InstallOLMOperator_packageserver ==
    /\ op = "InstallOLMOperator"
    /\ pc = "packageserver"
    /\ \E r \in {"ok", "err"} :
         /\ trace' = Append(trace, E("DoRolloutWait", "packageserver", r))
         /\ IF r = "err"
               THEN Return("err", Wrap("DoRolloutWait", "error while waiting for deployment rollout"))
               ELSE Return("ok", NoErr)
    /\ UNCHANGED <<lockVars, platformVars, op, req, subs, polls, ticks, ip, files, found, idx,
                   provVars, ctVars, wnVars, monVars>>

\* --------------------------------------------------------- ProvisionCluster
\* os.LookupEnv: [ok, value].
EnvValues ==
    { [ok |-> FALSE, value |-> ""],
      [ok |-> TRUE,  value |-> ""],
      [ok |-> TRUE,  value |-> "fast-v2"] }

\* channel, ok := os.LookupEnv(...); if !ok || channel == "" { channel = d }
ChannelOr(v, d) == IF ~v.ok \/ v.value = "" THEN d ELSE v.value

\* One entry of ptrace: the step, the wrapper method called, the request's
\* name and channel, the value the step's environment variable had, the
\* result ("running" until the call returns) and the error returned.
P(s, m, n, ch, v, r) ==
    [step |-> s, call |-> m, name |-> n, channel |-> ch, env |-> v, res |-> r,
     err |-> NoErr]

NoEnv == [ok |-> FALSE, value |-> ""]

Call_ProvisionCluster ==
    /\ op = "idle"
    /\ prov = "off"
    /\ \E o \in BOOLEAN, m \in BOOLEAN :
         /\ config' = [InstallOLM |-> o, Monitoring |-> m]
         /\ prov' = IF o THEN "olm" ELSE "vm"
    /\ UNCHANGED <<lockVars, platformVars, callVars, channel, params, ptrace, pret,
                   preterr, ctVars, wnVars, monVars>>

ProvisionCluster_InstallOLMOperator ==
    /\ prov = "olm"
    /\ op = "idle"
    /\ Enter("InstallOLMOperator", "GetDeployment", [Name |-> "", Channel |-> ""])
    /\ ptrace' = Append(ptrace, P("olm", "InstallOLMOperator", "", "", NoEnv, "running"))
    /\ UNCHANGED <<lockVars, platformVars, prov, config, channel, params, pret, preterr,
                   ctVars, wnVars, monVars>>

\* The step after s when s succeeded.
NextStep(s) ==
    CASE s = "olm"   -> "vm"
      [] s = "vm"    -> "pxc"
      [] s = "pxc"   -> "psmdb"
      [] s = "psmdb" -> "dbaas"
      [] s = "dbaas" -> "monitoring"

\* A step that carries on after a failed call.
ProvisionCluster_ReturnIgnoringError ==
    /\ prov \in {"olm", "vm", "pxc", "psmdb", "dbaas"}
    /\ op # "idle"
    /\ pc = "done"
    /\ ptrace' = [ptrace EXCEPT ![Len(ptrace)].res = ret, ![Len(ptrace)].err = reterr]
    /\ prov' = NextStep(prov)
    /\ UNCHANGED <<pret, preterr>>
    /\ op' = "idle"
    /\ req' = [Name |-> "", Channel |-> ""]
    /\ subs' = "nil"
    /\ polls' = 0
    /\ ticks' = 0
    /\ ip' = NoPlan
    /\ trace' = <<>>
    /\ ret' = "none"
    /\ reterr' = NoErr
    /\ files' = NoFiles
    /\ found' = <<>>
    /\ idx' = 0
    /\ UNCHANGED <<lockVars, platformVars, pc, config, channel, params, ctVars, wnVars, monVars>>

\* The call of the current step has returned: if err != nil { return err },
\* else on to the next step.
ProvisionCluster_Return ==
    /\ prov \in {"olm", "vm", "pxc", "psmdb", "dbaas"}
    /\ op # "idle"
    /\ pc = "done"
    /\ ptrace' = [ptrace EXCEPT ![Len(ptrace)].res = ret, ![Len(ptrace)].err = reterr]
    /\ IF ret = "err"
          THEN /\ prov' = "done"
               /\ pret' = "err"
               /\ preterr' = reterr
          ELSE /\ prov' = NextStep(prov)
               /\ UNCHANGED <<pret, preterr>>
    /\ op' = "idle"
    /\ req' = [Name |-> "", Channel |-> ""]
    /\ subs' = "nil"
    /\ polls' = 0
    /\ ticks' = 0
    /\ ip' = NoPlan
    /\ trace' = <<>>
    /\ ret' = "none"
    /\ reterr' = NoErr
    /\ files' = NoFiles
    /\ found' = <<>>
    /\ idx' = 0
    /\ UNCHANGED <<lockVars, platformVars, pc, config, channel, params, ctVars, wnVars, monVars>>

ProvisionCluster_InstallVM ==
    /\ prov = "vm"
    /\ op = "idle"
    /\ \E v \in EnvValues :
         /\ channel' = ChannelOr(v, "stable-v0")
         /\ params' = [Name |-> "victoriametrics-operator", Channel |-> channel']
         /\ Enter("InstallOperator", "GetOperatorGroup", params')
         /\ ptrace' = Append(ptrace, P("vm", "InstallOperator", params'.Name,
                                       params'.Channel, v, "running"))
    /\ UNCHANGED <<lockVars, platformVars, prov, config, pret, preterr, ctVars, wnVars, monVars>>

\* The channel is looked up; params is passed on as the previous step left it.
ProvisionCluster_InstallPXC ==
    /\ prov = "pxc"
    /\ op = "idle"
    /\ \E v \in EnvValues :
         /\ channel' = ChannelOr(v, "stable-v1")
         /\ Enter("InstallOperator", "GetOperatorGroup", params)
         /\ ptrace' = Append(ptrace, P("pxc", "InstallOperator", params.Name,
                                       params.Channel, v, "running"))
    /\ UNCHANGED <<lockVars, platformVars, prov, config, params, pret, preterr, ctVars, wnVars, monVars>>

ProvisionCluster_InstallPSMDB ==
    /\ prov = "psmdb"
    /\ op = "idle"
    /\ \E v \in EnvValues :
         /\ channel' = ChannelOr(v, "stable-v1")
         /\ params' = [Name |-> "percona-server-mongodb-operator", Channel |-> channel']
         /\ Enter("InstallOperator", "GetOperatorGroup", params')
         /\ ptrace' = Append(ptrace, P("psmdb", "InstallOperator", params'.Name,
                                       params'.Channel, v, "running"))
    /\ UNCHANGED <<lockVars, platformVars, prov, config, pret, preterr, ctVars, wnVars, monVars>>

ProvisionCluster_InstallDBaaS ==
    /\ prov = "dbaas"
    /\ op = "idle"
    /\ \E v \in EnvValues :
         /\ channel' = ChannelOr(v, "stable-v0")
         /\ params' = [Name |-> "dbaas-operator", Channel |-> channel']
         /\ Enter("InstallOperator", "GetOperatorGroup", params')
         /\ ptrace' = Append(ptrace, P("dbaas", "InstallOperator", params'.Name,
                                       params'.Channel, v, "running"))
    /\ UNCHANGED <<lockVars, platformVars, prov, config, pret, preterr, ctVars, wnVars, monVars>>

\* if c.config.Monitoring.Enabled { provisionPMMMonitoring() }; return nil.
\* provisionPMMMonitoring does nothing and returns nil.
ProvisionCluster_Monitoring ==
    /\ prov = "monitoring"
    /\ op = "idle"
    /\ ptrace' = IF config.Monitoring
                    THEN Append(ptrace, P("monitoring", "provisionPMMMonitoring", "", "",
                                          NoEnv, "ok"))
                    ELSE ptrace
    /\ prov' = "done"
    /\ pret' = "ok"
    /\ UNCHANGED <<lockVars, platformVars, callVars, config, channel, params, preterr,
                   ctVars, wnVars, monVars>>

\* ----------------------------------------------------------- GetClusterType
\* Provisioner identifiers, character by character.
aws == <<"a", "w", "s">>

minikube == <<"m", "i", "n", "i", "k", "u", "b", "e">>

hostpathProvisioner == <<"k", "u", "b", "e", "v", "i", "r", "t", ".", "i", "o", "/", "h", "o", "s", "t", "p", "a", "t", "h", "-", "p", "r", "o", "v", "i", "s", "i", "o", "n", "e", "r">>

standard == <<"s", "t", "a", "n", "d", "a", "r", "d">>

\* "ebs.csi.aws.com"
EbsCsiAws ==
    <<"e", "b", "s", ".", "c", "s", "i", ".", "a", "w", "s", ".", "c", "o", "m">>

\* "k8s.io/minikube-hostpath"
MinikubeHostpath ==
    <<"k", "8", "s", ".", "i", "o", "/", "m", "i", "n", "i", "k", "u", "b", "e", "-", "h", "o", "s", "t", "p", "a", "t", "h">>

\* "kubevirt.io/hostpath-provisioner"
KubevirtHostpath ==
    <<"k", "u", "b", "e", "v", "i", "r", "t", ".", "i", "o", "/", "h", "o", "s", "t", "p", "a", "t", "h", "-", "p", "r", "o", "v", "i", "s", "i", "o", "n", "e", "r">>

\* "rancher.io/local-path"
RancherLocalPath ==
    <<"r", "a", "n", "c", "h", "e", "r", ".", "i", "o", "/", "l", "o", "c", "a", "l", "-", "p", "a", "t", "h">>

\* "standard.aws"
StandardAws ==
    <<"s", "t", "a", "n", "d", "a", "r", "d", ".", "a", "w", "s">>

Provisioners == { EbsCsiAws, MinikubeHostpath, KubevirtHostpath, RancherLocalPath, StandardAws }

\* strings.Contains(s, sub)
Contains(s, sub) ==
    \E i \in 0..(Len(s) - Len(sub)) : SubSeq(s, i + 1, i + Len(sub)) = sub

IsLocal(p) ==
    \/ Contains(p, minikube)
    \/ Contains(p, hostpathProvisioner)
    \/ Contains(p, standard)

\* Every storage class is tested for "aws" before any is tested for the
\* local provisioners.
RECURSIVE AnyContains(_, _)
AnyContains(items, sub) ==
    IF items = <<>> THEN FALSE
    ELSE Contains(Head(items), sub) \/ AnyContains(Tail(items), sub)

ClassifyRuleFirst(items) ==
    IF AnyContains(items, aws) THEN "eks"
    ELSE IF AnyContains(items, minikube) \/ AnyContains(items, hostpathProvisioner)
            \/ AnyContains(items, standard) THEN "minikube"
    ELSE "generic"

\* The loop over storageClasses.Items.
RECURSIVE Classify(_)
Classify(items) ==
    IF items = <<>> THEN "generic"
    ELSE IF Contains(Head(items), aws) THEN "eks"
    ELSE IF IsLocal(Head(items)) THEN "minikube"
    ELSE Classify(Tail(items))

\* GetClusterType: RLock; GetStorageClasses; classify; RUnlock.
GetClusterType ==
    /\ op = "idle"
    /\ prov = "off"
    /\ LockFree
    /\ op' = "GetClusterType"
    /\ pc' = "done"
    /\ \E r \in {"ok", "err"} :
         IF r = "err"
            THEN /\ trace' = <<E("GetStorageClasses", "", "err")>>
                 /\ ctype' = "unknown"
                 /\ ret' = "err"
                 /\ reterr' = ErrOf("GetStorageClasses")
                 /\ UNCHANGED classes
            ELSE /\ trace' = <<E("GetStorageClasses", "", "ok")>>
                 /\ \E cl \in SeqsUpTo(Provisioners, MaxClasses) :
                      /\ classes' = cl
                      /\ ctype' = Classify(cl)
                 /\ ret' = "ok"
                 /\ UNCHANGED reterr
    /\ UNCHANGED <<lockVars, platformVars, req, subs, polls, ticks, ip, files, found, idx,
                   provVars, wnVars, monVars>>

\* ----------------------------------------------------------- GetWorkerNodes
\* forbidenTaints: taint key -> the effect that keeps workloads off the node.
forbidenTaints ==
    [ k \in { "node.cloudprovider.kubernetes.io/uninitialized",
              "node.kubernetes.io/unschedulable",
              "node-role.kubernetes.io/master" } |-> "NoSchedule" ]

\* The taints a listed node can carry.
Taints ==
    { [key |-> "node-role.kubernetes.io/master",   effect |-> "NoSchedule"],
      [key |-> "node-role.kubernetes.io/master",   effect |-> "NoExecute"],
      [key |-> "node.kubernetes.io/unschedulable", effect |-> "NoSchedule"],
      [key |-> "custom/foo",                       effect |-> "NoSchedule"] }

\* The key alone decides.
KeepsNodeByKey(taint) == taint.key \notin DOMAIN forbidenTaints

\* effect, keyFound := forbidenTaints[taint.Key]
\* if !keyFound || effect != taint.Effect { workers = append(workers, node) }
KeepsNode(taint) ==
    \/ taint.key \notin DOMAIN forbidenTaints
    \/ forbidenTaints[taint.key] # taint.effect

\* The node is appended once, when none of its taints is forbidden.
AppendOnce(w, name, taints) ==
    IF \A i \in 1..Len(taints) : KeepsNode(taints[i]) THEN Append(w, name) ELSE w

\* for _, taint := range node.Spec.Taints { ... }: the node is appended once
\* for every taint that passes.
RECURSIVE AppendPerTaint(_, _, _)
AppendPerTaint(w, name, taints) ==
    IF taints = <<>> THEN w
    ELSE AppendPerTaint(IF KeepsNode(Head(taints)) THEN Append(w, name) ELSE w,
                        name, Tail(taints))

\* for _, node := range nodes.Items { ... }
RECURSIVE WorkerNodes(_, _)
WorkerNodes(w, items) ==
    IF items = <<>> THEN w
    ELSE LET node == Head(items)
         IN  WorkerNodes(IF Len(node.taints) = 0
                            THEN Append(w, node.name)
                            ELSE AppendPerTaint(w, node.name, node.taints),
                         Tail(items))

\* The node lists GetNodes can return: node i is named i.
NodeLists ==
    { [ i \in 1..Len(q) |-> [name |-> i, taints |-> q[i]] ] :
        q \in SeqsUpTo(SeqsUpTo(Taints, MaxTaints), MaxNodes) }

GetWorkerNodes ==
    /\ op = "idle"
    /\ prov = "off"
    /\ op' = "GetWorkerNodes"
    /\ pc' = "done"
    /\ \E r \in {"ok", "err"} :
         /\ trace' = <<E("GetNodes", "", r)>>
         /\ IF r = "err"
               THEN /\ ret' = "err"
                    /\ reterr' = Wrap("GetNodes", "could not get nodes of Kubernetes cluster")
                    /\ UNCHANGED <<nodes, workers>>
               ELSE /\ \E items \in NodeLists :
                         /\ nodes' = items
                         /\ workers' = WorkerNodes(<<>>, items)
                    /\ ret' = "ok"
                    /\ UNCHANGED reterr
    /\ UNCHANGED <<lockVars, platformVars, req, subs, polls, ticks, ip, files, found, idx,
                   provVars, ctVars, monVars>>

\* ------------------------------------------------------ ProvisionMonitoring
\* files := []string{...} of ProvisionMonitoring, in order.
MonitoringFiles ==
    << "crds/victoriametrics/crs/vmagent_rbac.yaml",
       "crds/victoriametrics/crs/vmnodescrape.yaml",
       "crds/victoriametrics/crs/vmpodscrape.yaml",
       "crds/victoriametrics/kube-state-metrics/service-account.yaml",
       "crds/victoriametrics/kube-state-metrics/cluster-role.yaml",
       "crds/victoriametrics/kube-state-metrics/cluster-role-binding.yaml",
       "crds/victoriametrics/kube-state-metrics/deployment.yaml",
       "crds/victoriametrics/kube-state-metrics/service.yaml",
       "crds/victoriametrics/kube-state-metrics.yaml" >>

\* for i := 0; i < 3; i++
retries == 3

\* errors.Wrapf(err, "cannot apply file: %q", path), err being the error of
\* attempt i of call c.
WrapFile(c, f, i) ==
    [msg |-> "cannot apply file", cause |-> c, file |-> f, attempt |-> i]

\* A method of the wrapper that takes no request is entered.
EnterMonitoring(o, first, p) ==
    /\ Enter(o, first, [Name |-> "", Channel |-> ""])
    /\ path' = p
    /\ attempt' = 0

Call_ProvisionMonitoring ==
    /\ op = "idle"
    /\ prov = "off"
    /\ EnterMonitoring("ProvisionMonitoring", "Prime", 0)
    /\ UNCHANGED <<lockVars, platformVars, provVars, ctVars, wnVars>>

\* randomCrypto, err := rand.Prime(rand.Reader, 64)
ProvisionMonitoring_Prime ==
    /\ op = "ProvisionMonitoring"
    /\ pc = "Prime"
    /\ \E r \in {"ok", "err"} :
         IF r = "ok"
            THEN /\ pc' = "CreatePMMSecret"
                 /\ UNCHANGED <<ret, reterr>>
            ELSE Return("err", ErrOf("rand.Prime"))
    /\ UNCHANGED <<lockVars, platformVars, op, req, subs, polls, ticks, ip, trace, files,
                   found, idx, provVars, ctVars, wnVars, monVars>>

\* k.CreatePMMSecret: Lock; client.ApplyObject(secret); Unlock.
ProvisionMonitoring_CreatePMMSecret ==
    /\ op = "ProvisionMonitoring"
    /\ pc = "CreatePMMSecret"
    /\ LockFree
    /\ \E r \in {"ok", "err"} :
         /\ trace' = Append(trace, E("ApplyObject", "secret", r))
         /\ IF r = "ok"
               THEN /\ pc' = "ApplyObject"
                    /\ UNCHANGED <<ret, reterr>>
               ELSE Return("err", ErrOf("ApplyObject"))
    /\ UNCHANGED <<lockVars, platformVars, op, req, subs, polls, ticks, ip, files, found,
                   idx, provVars, ctVars, wnVars, monVars>>

\* k.client.ApplyObject(vmagent)
ProvisionMonitoring_ApplyObject ==
    /\ op = "ProvisionMonitoring"
    /\ pc = "ApplyObject"
    /\ \E r \in {"ok", "err"} :
         /\ trace' = Append(trace, E("ApplyObject", "vmagent", r))
         /\ IF r = "ok"
               THEN /\ pc' = "ReadFile"
                    /\ path' = 1
                    /\ UNCHANGED <<ret, reterr>>
               ELSE /\ Return("err", Wrap("ApplyObject", "cannot apply vm agent spec"))
                    /\ UNCHANGED path
    /\ UNCHANGED <<lockVars, platformVars, op, req, subs, polls, ticks, ip, files, found,
                   idx, provVars, ctVars, wnVars, attempt>>

\* The retry counter is declared outside the loop over files: one budget
\* for all of them.
ProvisionMonitoring_ReadFileSharedBudget ==
    /\ op = "ProvisionMonitoring"
    /\ pc = "ReadFile"
    /\ IF path > Len(MonitoringFiles)
          THEN /\ Return("ok", NoErr)
               /\ UNCHANGED path
          ELSE \E r \in {"ok", "err"} :
                 CASE r = "ok" /\ attempt < retries ->
                        /\ pc' = "ApplyFile"
                        /\ UNCHANGED <<path, ret, reterr>>
                   [] r = "ok" /\ attempt >= retries ->
                        /\ pc' = "ReadFile"
                        /\ path' = path + 1
                        /\ UNCHANGED <<ret, reterr>>
                   [] r = "err" ->
                        /\ Return("err", ErrOf("ReadFile"))
                        /\ UNCHANGED path
    /\ UNCHANGED <<lockVars, platformVars, op, req, subs, polls, ticks, ip, trace, files,
                   found, idx, provVars, ctVars, wnVars, attempt>>

\* The head of the loop over files and data.OLMCRDs.ReadFile(path).
ProvisionMonitoring_ReadFile ==
    /\ op = "ProvisionMonitoring"
    /\ pc = "ReadFile"
    /\ IF path > Len(MonitoringFiles)
          THEN /\ Return("ok", NoErr)
               /\ UNCHANGED attempt
          ELSE \E r \in {"ok", "err"} :
                 IF r = "ok"
                    THEN /\ pc' = "ApplyFile"
                         /\ attempt' = 0
                         /\ UNCHANGED <<ret, reterr>>
                    ELSE /\ Return("err", ErrOf("ReadFile"))
                         /\ UNCHANGED attempt
    /\ UNCHANGED <<lockVars, platformVars, op, req, subs, polls, ticks, ip, trace, files,
                   found, idx, provVars, ctVars, wnVars, path>>

\* The loop goes on to the next file after a file that failed every time.
ProvisionMonitoring_ApplyFileSkipFailed ==
    /\ op = "ProvisionMonitoring"
    /\ pc = "ApplyFile"
    /\ attempt < retries
    /\ \E r \in {"ok", "err"} :
         /\ trace' = trace \o <<E("ApplyFile", MonitoringFiles[path], r)>>
                           \o (IF r = "err" THEN <<E("Sleep", "10s", "ok")>> ELSE <<>>)
         /\ attempt' = attempt + 1
         /\ IF r = "ok" \/ attempt' >= retries
               THEN /\ pc' = "ReadFile"
                    /\ path' = path + 1
               ELSE /\ pc' = "ApplyFile"
                    /\ UNCHANGED path
         /\ UNCHANGED <<ret, reterr>>
    /\ UNCHANGED <<lockVars, platformVars, op, req, subs, polls, ticks, ip, files, found,
                   idx, provVars, ctVars, wnVars>>

\* One turn of the retry loop: ApplyFile; on an error Sleep and i++, else
\* break; when the loop is left with an error, return it wrapped.
ProvisionMonitoring_ApplyFile ==
    /\ op = "ProvisionMonitoring"
    /\ pc = "ApplyFile"
    /\ attempt < retries
    /\ \E r \in {"ok", "err"} :
         /\ trace' = trace \o <<E("ApplyFile", MonitoringFiles[path], r)>>
                           \o (IF r = "err" THEN <<E("Sleep", "10s", "ok")>> ELSE <<>>)
         /\ attempt' = attempt + 1
         /\ CASE r = "ok" ->
                   /\ pc' = "ReadFile"
                   /\ path' = path + 1
                   /\ UNCHANGED <<ret, reterr>>
              [] r = "err" /\ attempt' < retries ->
                   /\ pc' = "ApplyFile"
                   /\ UNCHANGED <<path, ret, reterr>>
              [] r = "err" /\ attempt' >= retries ->
                   /\ Return("err", WrapFile("ApplyFile", MonitoringFiles[path], attempt'))
                   /\ UNCHANGED path
    /\ UNCHANGED <<lockVars, platformVars, op, req, subs, polls, ticks, ip, files, found,
                   idx, provVars, ctVars, wnVars>>

\* -------------------------------------------------------- CleanupMonitoring
\* files := []string{...} of CleanupMonitoring, in order.
CleanupFilesWithoutService ==
    << "crds/victoriametrics/kube-state-metrics.yaml",
       "crds/victoriametrics/kube-state-metrics/cluster-role-binding.yaml",
       "crds/victoriametrics/kube-state-metrics/cluster-role.yaml",
       "crds/victoriametrics/kube-state-metrics/deployment.yaml",
       "crds/victoriametrics/kube-state-metrics/service-account.yaml",
       "crds/victoriametrics/crs/vmagent_rbac.yaml",
       "crds/victoriametrics/crs/vmnodescrape.yaml",
       "crds/victoriametrics/crs/vmpodscrape.yaml" >>

CleanupFiles ==
    << "crds/victoriametrics/kube-state-metrics.yaml",
       "crds/victoriametrics/kube-state-metrics/cluster-role-binding.yaml",
       "crds/victoriametrics/kube-state-metrics/cluster-role.yaml",
       "crds/victoriametrics/kube-state-metrics/deployment.yaml",
       "crds/victoriametrics/kube-state-metrics/service-account.yaml",
       "crds/victoriametrics/kube-state-metrics/service.yaml",
       "crds/victoriametrics/crs/vmagent_rbac.yaml",
       "crds/victoriametrics/crs/vmnodescrape.yaml",
       "crds/victoriametrics/crs/vmpodscrape.yaml" >>

Call_CleanupMonitoring ==
    /\ op = "idle"
    /\ prov = "off"
    /\ EnterMonitoring("CleanupMonitoring", "ReadFile", 1)
    /\ UNCHANGED <<lockVars, platformVars, provVars, ctVars, wnVars>>

\* The head of the loop over files and data.OLMCRDs.ReadFile(path).
CleanupMonitoring_ReadFile ==
    /\ op = "CleanupMonitoring"
    /\ pc = "ReadFile"
    /\ IF path > Len(CleanupFiles)
          THEN Return("ok", NoErr)
          ELSE \E r \in {"ok", "err"} :
                 IF r = "ok"
                    THEN /\ pc' = "DeleteFile"
                         /\ UNCHANGED <<ret, reterr>>
                    ELSE Return("err", ErrOf("ReadFile"))
    /\ UNCHANGED <<lockVars, platformVars, op, req, subs, polls, ticks, ip, trace, files,
                   found, idx, provVars, ctVars, wnVars, monVars>>

\* k.client.DeleteFile(file)
CleanupMonitoring_DeleteFile ==
    /\ op = "CleanupMonitoring"
    /\ pc = "DeleteFile"
    /\ \E r \in {"ok", "err"} :
         /\ trace' = Append(trace, E("DeleteFile", CleanupFiles[path], r))
         /\ IF r = "ok"
               THEN /\ pc' = "ReadFile"
                    /\ path' = path + 1
                    /\ UNCHANGED <<ret, reterr>>
               ELSE /\ Return("err", WrapFile("DeleteFile", CleanupFiles[path], 1))
                    /\ UNCHANGED path
    /\ UNCHANGED <<lockVars, platformVars, op, req, subs, polls, ticks, ip, files, found,
                   idx, provVars, ctVars, wnVars, attempt>>

\* ------------------------------------------------------------ the platform
\* The lifecycle manager assigns an InstallPlan to a pending Subscription;
\* followed for the Subscription the call in progress is about.
OLM_AssignInstallPlan ==
    /\ op \in {"InstallOperator", "UpgradeOperator"}
    /\ pc # "done"
    /\ subscription[req.Name] = "pending"
    /\ subscription' = [subscription EXCEPT ![req.Name] = "resolved"]
    /\ UNCHANGED <<lockVars, operatorGroup, approved, olmDeployment, callVars, provVars, ctVars, wnVars, monVars>>

\* The platform as a call can find it: every Subscription in the same state.
Init ==
    /\ LockFree
    /\ operatorGroup \in BOOLEAN
    /\ \E s \in SubStates, a \in BOOLEAN :
         /\ a => s = "resolved"
         /\ subscription = [n \in OperatorNames |-> s]
         /\ approved = [n \in OperatorNames |-> a]
    /\ olmDeployment \in {"absent", "v0.24.0", "v0.25.0"}
    /\ CallIdle

Next ==
    \/ Call_InstallOperator
    \/ createOperatorGroupIfNeeded_Get
    \/ createOperatorGroupIfNeeded_Create
    \/ InstallOperator_CreateSubscriptionForCatalog
    \/ InstallOperator_Poll
    \/ InstallOperator_GetInstallPlan
    \/ InstallOperator_UpdateInstallPlan
    \/ Call_UpgradeOperator
    \/ UpgradeOperator_Poll
    \/ UpgradeOperator_GetInstallPlan
    \/ UpgradeOperator_UpdateInstallPlan
    \/ Call_InstallOLMOperator
    \/ InstallOLMOperator_GetDeployment
    \/ InstallOLMOperator_ApplyFile
    \/ InstallOLMOperator_DoRolloutWait
    \/ InstallOLMOperator_decodeResources
    \/ InstallOLMOperator_GetSubscriptionCSV
    \/ InstallOLMOperator_DoCSVWait
    \/ InstallOLMOperator_packageserver
    \/ Call_ProvisionCluster
    \/ ProvisionCluster_InstallOLMOperator
    \/ ProvisionCluster_Return
    \/ ProvisionCluster_InstallVM
    \/ ProvisionCluster_InstallPXC
    \/ ProvisionCluster_InstallPSMDB
    \/ ProvisionCluster_InstallDBaaS
    \/ ProvisionCluster_Monitoring
    \/ GetClusterType
    \/ OLM_AssignInstallPlan

Spec == Init /\ [][Next]_vars

\* A step of a call of InstallOperator or UpgradeOperator that is under way.
CallStep ==
    \/ createOperatorGroupIfNeeded_Get
    \/ createOperatorGroupIfNeeded_Create
    \/ InstallOperator_CreateSubscriptionForCatalog
    \/ InstallOperator_Poll
    \/ InstallOperator_GetInstallPlan
    \/ InstallOperator_UpdateInstallPlan
    \/ UpgradeOperator_Poll
    \/ UpgradeOperator_GetInstallPlan
    \/ UpgradeOperator_UpdateInstallPlan

LiveNext ==
    \/ Call_InstallOperator
    \/ Call_UpgradeOperator
    \/ CallStep
    \/ OLM_AssignInstallPlan

\* Every connector call returns, the lock is granted and the poll's ticker
\* and deadline fire: a call under way is not left waiting for ever. The
\* lifecycle manager is under no obligation.
SpecLive == Init /\ [][LiveNext]_vars /\ WF_vars(CallStep)

\* ------------------------------------------- claims on the orchestration
Calls(c) == { i \in 1..Len(trace) : trace[i].call = c }

\* C4: within one InstallOperator call the connector calls are strictly
\* ordered and each is issued only when the one before it succeeded:
\* CreateSubscriptionForCatalog (ok), then GetSubscription polls (each but
\* the last one not yet), then GetInstallPlan (ok), then UpdateInstallPlan.
C4_InstallOperatorOrdered ==
    op = "InstallOperator" =>
      \A i \in 1..(Len(trace) - 1) :
        LET e == trace[i]
            n == trace[i + 1]
        IN  /\ e.call = "GetOperatorGroup" =>
                 n.call \in {"CreateOperatorGroup", "CreateSubscriptionForCatalog"}
            /\ e.call = "CreateOperatorGroup" =>
                 e.res = "ok" /\ n.call = "CreateSubscriptionForCatalog"
            /\ e.call = "CreateSubscriptionForCatalog" =>
                 e.res = "ok" /\ n.call = "GetSubscription"
            /\ e.call = "GetSubscription" =>
                 \/ e.res \in {"nil", "pending"} /\ n.call = "GetSubscription"
                 \/ e.res \in {"unnamed", "resolved"} /\ n.call = "GetInstallPlan"
            /\ e.call = "GetInstallPlan" =>
                 e.res # "err" /\ n.call = "UpdateInstallPlan"
            /\ e.call # "UpdateInstallPlan"

\* An InstallOperator call that polled more than once and went through to
\* the approval write.
C4_Witness ==
    /\ op = "InstallOperator"
    /\ ret = "ok"
    /\ Cardinality(Calls("GetSubscription")) >= 2
    /\ Last(trace).call = "UpdateInstallPlan"

\* C5: in InstallOperator and UpgradeOperator, GetInstallPlan is called only
\* right after a GetSubscription of the same call returned, without error, a
\* Subscription whose Status.Install is not nil; never after a poll that
\* ended in an error or in the deadline.
C5_InstallPlanAfterResolvedSubscription ==
    op \in {"InstallOperator", "UpgradeOperator"} =>
      /\ \A i \in Calls("GetInstallPlan") :
           /\ i > 1
           /\ trace[i - 1].call = "GetSubscription"
           /\ trace[i - 1].res \in {"unnamed", "resolved"}
      /\ (ret = "err" /\ reterr \in {ErrWaitTimeout, ErrOf("GetSubscription")}) =>
           Calls("GetInstallPlan") = {}

\* GetInstallPlan was called after a poll whose first invocation was not yet.
C5_Witness ==
    /\ op \in {"InstallOperator", "UpgradeOperator"}
    /\ Calls("GetInstallPlan") # {}
    /\ \E i \in Calls("GetSubscription") : trace[i].res = "pending"

\* C6: the step of UpgradeOperator that fetches an InstallPlan already
\* approved returns success, has called no UpdateInstallPlan, and leaves the
\* InstallPlan and the rest of the platform as they were.
C6_ApprovedPlanIsNoOp ==
    [][ ( /\ op = "UpgradeOperator"
          /\ pc = "GetInstallPlan"
          /\ Len(trace') = Len(trace) + 1
          /\ Last(trace').call = "GetInstallPlan"
          /\ Last(trace').res = "approved" )
        => /\ pc' = "done"
           /\ ret' = "ok"
           /\ \A i \in 1..Len(trace') : trace'[i].call # "UpdateInstallPlan"
           /\ UNCHANGED platformVars ]_vars

\* UpgradeOperator has returned success on an InstallPlan already approved.
C6_Witness ==
    /\ op = "UpgradeOperator"
    /\ pc = "done"
    /\ ret = "ok"
    /\ Last(trace).call = "GetInstallPlan"
    /\ Last(trace).res = "approved"
    /\ approved[req.Name]

Versions == {"v0.24.0", "v0.25.0"}

\* C7: when the GetDeployment("olm-operator") that opens InstallOLMOperator
\* finds a deployment, of whatever version, the bootstrap returns success
\* and has made no other call: no ApplyFile, no rollout wait, no CSV wait.
C7_BootstrapShortCircuit ==
    ( /\ op = "InstallOLMOperator"
      /\ trace # <<>>
      /\ trace[1].call = "GetDeployment"
      /\ trace[1].res \in Versions )
    => /\ Len(trace) = 1
       /\ pc = "done"
       /\ ret = "ok"

\* The bootstrap found a deployment of the older version.
C7_Witness ==
    /\ op = "InstallOLMOperator"
    /\ pc = "done"
    /\ trace # <<>>
    /\ trace[1].res = "v0.24.0"

\* The calls a bootstrap that finds no deployment makes when all succeed.
ExpectedBootstrap ==
    << <<"GetDeployment", "olm-operator">>,
       <<"ApplyFile", "crds.yaml">>,
       <<"ApplyFile", "olm.yaml">>,
       <<"ApplyFile", "percona-dbaas-catalog.yaml">>,
       <<"DoRolloutWait", "olm-operator">>,
       <<"DoRolloutWait", "catalog-operator">> >>
    \o [ i \in 1..(2 * Len(found)) |->
           IF i % 2 = 1
              THEN <<"GetSubscriptionCSV", found[(i + 1) \div 2].name>>
              ELSE <<"DoCSVWait", CSVKey(found[i \div 2].name)>> ]
    \o << <<"DoRolloutWait", "packageserver">> >>

\* C8: a run of InstallOLMOperator that finds no deployment and succeeds has
\* made exactly these calls in this order: apply crds.yaml, olm.yaml and the
\* catalog, wait for the rollouts of olm-operator and catalog-operator, then
\* per discovered subscription resolve its CSV key and wait for that CSV,
\* and last wait for the packageserver rollout.
C8_BootstrapOrder ==
    ( /\ op = "InstallOLMOperator"
      /\ pc = "done"
      /\ ret = "ok"
      /\ trace[1].res \notin Versions )
    => /\ [ i \in 1..Len(trace) |-> <<trace[i].call, trace[i].arg>> ] = ExpectedBootstrap
       /\ \A i \in 2..Len(trace) : trace[i].res = "ok"

\* A bootstrap that waited for two subscriptions has succeeded.
C8_Witness ==
    /\ op = "InstallOLMOperator"
    /\ pc = "done"
    /\ ret = "ok"
    /\ Len(found) = 2
    /\ Last(trace).arg = "packageserver"

\* C9: ProvisionCluster stops at the first call that fails: no call follows
\* a failed one, the error returned is the error of that call, and no
\* delete is issued for what was applied before.
C9_AbortOnFirstFailure ==
    /\ \A i \in 1..(Len(ptrace) - 1) : ptrace[i].res = "ok"
    /\ (ptrace # <<>> /\ Last(ptrace).res = "err") =>
         /\ prov = "done"
         /\ pret = "err"
         /\ preterr = Last(ptrace).err
    /\ prov # "off" =>
         \A i \in 1..Len(trace) : trace[i].call \notin {"DeleteObject", "DeleteFile"}

\* ProvisionCluster has failed in its third operator install, after the
\* bootstrap and two installs went through.
C9_Witness ==
    /\ prov = "done"
    /\ pret = "err"
    /\ Len(ptrace) = 4
    /\ ptrace[1].call = "InstallOLMOperator"
    /\ Last(ptrace).step = "psmdb"

\* A storage class matches when its provisioner contains one of the four
\* identifiers.
Matching ==
    { i \in 1..Len(classes) :
        \/ Contains(classes[i], aws)
        \/ Contains(classes[i], minikube)
        \/ Contains(classes[i], hostpathProvisioner)
        \/ Contains(classes[i], standard) }

\* C10: GetClusterType returns the classification of the first storage
\* class, in order, that matches: eks when its provisioner contains "aws",
\* minikube otherwise; generic, without error, when none matches.
C10_FirstMatchWins ==
    (op = "GetClusterType" /\ ret = "ok") =>
      IF Matching = {}
         THEN ctype = "generic"
         ELSE LET f == CHOOSE i \in Matching : \A j \in Matching : i <= j
              IN  ctype = IF Contains(classes[f], aws) THEN "eks" ELSE "minikube"

\* A local provisioner listed before a cloud one classifies as local.
C10_Witness ==
    /\ op = "GetClusterType"
    /\ classes = <<KubevirtHostpath, EbsCsiAws>>
    /\ ctype = "minikube"

\* ===================================== monitoring and worker nodes
\* The monitoring stack and the node listing, on a fresh platform.
MonitoringNext ==
    \/ GetWorkerNodes
    \/ Call_ProvisionMonitoring
    \/ ProvisionMonitoring_Prime
    \/ ProvisionMonitoring_CreatePMMSecret
    \/ ProvisionMonitoring_ApplyObject
    \/ ProvisionMonitoring_ReadFile
    \/ ProvisionMonitoring_ApplyFile
    \/ Call_CleanupMonitoring
    \/ CleanupMonitoring_ReadFile
    \/ CleanupMonitoring_DeleteFile

SpecMonitoring == LockInit /\ [][MonitoringNext]_vars

\* How many times node n is in the list GetWorkerNodes returned.
Occurrences(n) == Cardinality({ j \in 1..Len(workers) : workers[j] = n })

\* C11: in the list GetWorkerNodes returns, a node without taints is there
\* exactly once; a node whose only taint has one of the three forbidden keys
\* with the effect NoSchedule is not there; a node whose only taint has
\* another key, or a forbidden key with another effect, is there.
C11_WorkerNodesByTaint ==
    (op = "GetWorkerNodes" /\ ret = "ok") =>
      \A i \in 1..Len(nodes) :
        LET t == nodes[i].taints
            forbidden ==
              /\ t[1].key \in { "node.cloudprovider.kubernetes.io/uninitialized",
                                "node.kubernetes.io/unschedulable",
                                "node-role.kubernetes.io/master" }
              /\ t[1].effect = "NoSchedule"
        IN  /\ Len(t) = 0 => Occurrences(nodes[i].name) = 1
            /\ (Len(t) = 1 /\ forbidden) => Occurrences(nodes[i].name) = 0
            /\ (Len(t) = 1 /\ ~forbidden) => Occurrences(nodes[i].name) >= 1

\* A master node was left out and a node with the master key under another
\* effect was returned.
C11_Witness ==
    /\ op = "GetWorkerNodes"
    /\ ret = "ok"
    /\ Len(nodes) = 2
    /\ nodes[1].taints = <<[key |-> "node-role.kubernetes.io/master", effect |-> "NoSchedule"]>>
    /\ nodes[2].taints = <<[key |-> "node-role.kubernetes.io/master", effect |-> "NoExecute"]>>
    /\ workers = <<2>>

\* The turns of the retry loop spent on MonitoringFiles[f].
Attempts(f) ==
    { i \in 1..Len(trace) :
        trace[i].call = "ApplyFile" /\ trace[i].arg = MonitoringFiles[f] }

\* C12: when ProvisionMonitoring has returned and every ApplyFile of some
\* file failed, that file was tried exactly three times, the error returned
\* is the error of the third try wrapped with the file's path, and no file
\* after it in the list was tried.
C12_RetryThenFail ==
    (op = "ProvisionMonitoring" /\ pc = "done") =>
      \A f \in 1..Len(MonitoringFiles) :
        (Attempts(f) # {} /\ \A i \in Attempts(f) : trace[i].res = "err") =>
          /\ Cardinality(Attempts(f)) = 3
          /\ ret = "err"
          /\ reterr = [msg |-> "cannot apply file", cause |-> "ApplyFile",
                       file |-> MonitoringFiles[f], attempt |-> 3]
          /\ \A g \in (f + 1)..Len(MonitoringFiles) : Attempts(g) = {}

\* The third file failed three times, after the second went through on its
\* second try.
C12_Witness ==
    /\ op = "ProvisionMonitoring"
    /\ pc = "done"
    /\ ret = "err"
    /\ Cardinality(Attempts(2)) = 2
    /\ Cardinality(Attempts(3)) = 3
    /\ \A i \in Attempts(3) : trace[i].res = "err"

\* ------------------------------------------------- claims on the polls
\* The GetSubscription results for which the poll condition of the call in
\* progress returns true: Status.Install set (InstallOperator), and its Name
\* not empty as well (UpgradeOperator).
ConditionTrueOn ==
    IF op = "InstallOperator" THEN {"unnamed", "resolved"} ELSE {"resolved"}

\* The results for which it returns false without an error.
ConditionNotYetOn ==
    IF op = "InstallOperator" THEN {"nil", "pending"} ELSE {"nil", "pending", "unnamed"}

\* C13: in the poll of InstallOperator and UpgradeOperator, the invocation
\* of the condition that returns true is the last one: when the n-th
\* GetSubscription makes the condition true, the poll has ended with success
\* after exactly n invocations and there is no (n+1)-th.
C13_PollStopsOnTrue ==
    op \in {"InstallOperator", "UpgradeOperator"} =>
      \A i \in Calls("GetSubscription") :
        trace[i].res \in ConditionTrueOn =>
          /\ \A j \in Calls("GetSubscription") : j <= i
          /\ polls = Cardinality(Calls("GetSubscription"))
          /\ pc # "Poll"
          /\ reterr \notin {ErrWaitTimeout, ErrOf("GetSubscription")}

\* The condition of UpgradeOperator became true on its third invocation.
C13_Witness ==
    /\ op = "UpgradeOperator"
    /\ polls = 3
    /\ [ i \in 1..3 |-> trace[i].res ] = <<"pending", "pending", "resolved">>
    /\ pc # "Poll"

\* C14 as claimed: a poll that ended on the deadline has invoked its
\* condition a number of times within one of pollDuration / pollInterval.
C14_TimeoutWithinOneTick ==
    ( /\ op \in {"InstallOperator", "UpgradeOperator"}
      /\ pc = "done"
      /\ reterr = ErrWaitTimeout )
    => /\ polls >= (pollDuration \div pollInterval) - 1
       /\ polls <= (pollDuration \div pollInterval) + 1

\* C14, amended: a poll whose condition never returned true nor an error
\* ends with the deadline-exceeded failure, having invoked the condition at
\* least once and at most pollDuration / pollInterval + 1 times; no
\* install plan is fetched.
C14_TimeoutBounded ==
    ( /\ op \in {"InstallOperator", "UpgradeOperator"}
      /\ pc # "Poll"
      /\ polls > 0
      /\ \A i \in Calls("GetSubscription") : trace[i].res \in ConditionNotYetOn )
    => /\ pc = "done"
       /\ ret = "err"
       /\ reterr = ErrWaitTimeout
       /\ polls = Cardinality(Calls("GetSubscription"))
       /\ polls >= 1
       /\ polls <= (pollDuration \div pollInterval) + 1
       /\ Calls("GetInstallPlan") = {}

\* A poll ran into the deadline after two invocations only, ticks having
\* been dropped while the first was in progress.
C14_Witness ==
    /\ op = "UpgradeOperator"
    /\ pc = "done"
    /\ reterr = ErrWaitTimeout
    /\ polls = 2

\* C15: an error of GetSubscription ends the poll at once: it is the last
\* call of the operation, which returns that error without a GetInstallPlan
\* or an UpdateInstallPlan; a GetSubscription is followed by another one
\* only when it returned, without error, no subscription or one whose
\* install reference is not there yet.
C15_ErrorEndsPoll ==
    op \in {"InstallOperator", "UpgradeOperator"} =>
      \A i \in Calls("GetSubscription") :
        /\ trace[i].res = "err" =>
             /\ i = Len(trace)
             /\ pc = "done"
             /\ ret = "err"
             /\ reterr = ErrOf("GetSubscription")
             /\ Calls("GetInstallPlan") = {}
             /\ Calls("UpdateInstallPlan") = {}
        /\ (i < Len(trace) /\ trace[i + 1].call = "GetSubscription") =>
             trace[i].res \in ConditionNotYetOn

\* InstallOperator polled once without a result and then met an error.
C15_Witness ==
    /\ op = "InstallOperator"
    /\ pc = "done"
    /\ polls = 2
    /\ trace[Len(trace) - 1].res = "pending"
    /\ Last(trace).call = "GetSubscription"
    /\ Last(trace).res = "err"

\* ------------------------------------------- claims on ProvisionCluster
\* The default channel of the operator installed at step s.
DefaultChannel(s) ==
    CASE s = "vm"    -> "stable-v0"
      [] s = "pxc"   -> "stable-v1"
      [] s = "psmdb" -> "stable-v1"
      [] s = "dbaas" -> "stable-v0"

\* C16: for each of the four operator installs of ProvisionCluster the
\* Channel passed to InstallOperator is the value of that install's own
\* environment variable when it is set and not empty, and that operator's
\* default otherwise.
C16_ChannelPerOperator ==
    \A i \in 1..Len(ptrace) :
      ptrace[i].call = "InstallOperator" =>
        ptrace[i].channel =
          IF ptrace[i].env.ok /\ ptrace[i].env.value # ""
             THEN ptrace[i].env.value
             ELSE DefaultChannel(ptrace[i].step)

\* C17: InstallOperator does not call CreateOperatorGroup for an
\* OperatorGroup that is on the platform, and does not fail at that step.
C17_OperatorGroupIdempotent ==
    (op = "InstallOperator" /\ operatorGroup) =>
      /\ \A i \in Calls("CreateOperatorGroup") : trace[i].res = "ok"
      /\ reterr # ErrOf("CreateOperatorGroup")

\* ------------------------------------------ claims on CleanupMonitoring
\* The files CleanupMonitoring deleted, in order.
Deleted == [ i \in 1..Len(trace) |-> trace[i].arg ]

Reverse(q) == [ i \in 1..Len(q) |-> q[Len(q) + 1 - i] ]

\* C18 as claimed: a CleanupMonitoring that went through has deleted the
\* files ProvisionMonitoring applies in the reverse of its order.
C18_CleanupReverses ==
    (op = "CleanupMonitoring" /\ pc = "done" /\ ret = "ok") =>
      Deleted = Reverse(MonitoringFiles)

\* C18, amended: a CleanupMonitoring that went through has deleted exactly
\* the files ProvisionMonitoring applies, each once, in an order of its own:
\* kube-state-metrics.yaml, the last one applied, first, and the three crs
\* files, the first ones applied, last and in the order they are applied in.
C18_CleanupSameFiles ==
    (op = "CleanupMonitoring" /\ pc = "done" /\ ret = "ok") =>
      /\ Len(Deleted) = Len(MonitoringFiles)
      /\ { Deleted[i] : i \in 1..Len(Deleted) }
           = { MonitoringFiles[i] : i \in 1..Len(MonitoringFiles) }
      /\ \A i, j \in 1..Len(Deleted) : Deleted[i] = Deleted[j] => i = j
      /\ \A i \in 1..Len(trace) : trace[i].call = "DeleteFile"
      /\ Deleted[1] = Last(MonitoringFiles)
      /\ SubSeq(Deleted, Len(Deleted) - 2, Len(Deleted)) = SubSeq(MonitoringFiles, 1, 3)

\* CleanupMonitoring has deleted all its files.
C18_Witness ==
    /\ op = "CleanupMonitoring"
    /\ pc = "done"
    /\ ret = "ok"
    /\ Len(trace) = 9

\* ------------------------------------------- claims on the install plan
\* C20: a call of InstallOperator or UpgradeOperator issues UpdateInstallPlan
\* at most once, the plan it writes has Approved set, and an InstallOperator
\* that returned success has issued it exactly once.
C20_ApprovalWrittenOnce ==
    op \in {"InstallOperator", "UpgradeOperator"} =>
      /\ Cardinality(Calls("UpdateInstallPlan")) <= 1
      /\ \A i \in Calls("UpdateInstallPlan") :
           /\ ip.Approved
           /\ trace[i].res = "ok" => approved[req.Name]
      /\ (op = "InstallOperator" /\ pc = "done" /\ ret = "ok") =>
           Cardinality(Calls("UpdateInstallPlan")) = 1

\* InstallOperator has approved a plan it had fetched unapproved.
C20_Witness ==
    /\ op = "InstallOperator"
    /\ pc = "done"
    /\ ret = "ok"
    /\ trace[Len(trace) - 1].res = "unapproved"
    /\ Last(trace).call = "UpdateInstallPlan"
    /\ approved[req.Name]

\* ------------------------------------------------ claims on termination
\* C19: every call of InstallOperator and of UpgradeOperator returns, with
\* success or with an error, also when the subscription's install plan
\* reference never shows up.
C19_CallsReturn ==
    (op \in {"InstallOperator", "UpgradeOperator"}) ~> (pc = "done")

\* A call has returned the deadline-exceeded failure on a subscription that
\* is still without an install plan.
C19_Witness ==
    /\ op \in {"InstallOperator", "UpgradeOperator"}
    /\ pc = "done"
    /\ ret = "err"
    /\ reterr = ErrWaitTimeout
    /\ subscription[req.Name] = "pending"

\* ------------------------------------------- claims on the start of a poll
\* The first GetSubscription of the call in progress made the poll condition
\* true: the install-plan reference was there when the poll started.
PopulatedAtPollStart ==
    /\ op \in {"InstallOperator", "UpgradeOperator"}
    /\ Calls("GetSubscription") # {}
    /\ \E i \in Calls("GetSubscription") :
         /\ \A j \in Calls("GetSubscription") : i <= j
         /\ trace[i].res \in ConditionTrueOn

\* C21 as claimed: the poll of InstallOperator and UpgradeOperator invokes
\* its condition for the first time before any interval has elapsed, so a
\* subscription that is populated when the poll starts is detected with no
\* tick consumed.
C21_FirstInvocationImmediate ==
    ( /\ op \in {"InstallOperator", "UpgradeOperator"}
      /\ polls >= 1 )
    => ( PopulatedAtPollStart => ticks = 0 )

\* C21, amended: the condition is never invoked before the first tick, one
\* interval after the poll started; its first invocation is set off by that
\* tick, and a subscription that is populated when the poll starts is
\* detected by that first invocation, after one interval.
C21_FirstInvocationAfterInterval ==
    op \in {"InstallOperator", "UpgradeOperator"} =>
      /\ polls = 0 => ticks = 0
      /\ polls = 1 => ticks = 1
      /\ polls > 1 => ticks > 1
      /\ PopulatedAtPollStart => polls = 1 /\ pc # "Poll"

\* UpgradeOperator found the install-plan reference on its first invocation,
\* which the first tick set off.
C21_Witness ==
    /\ op = "UpgradeOperator"
    /\ PopulatedAtPollStart
    /\ polls = 1
    /\ ticks = 1
    /\ pc = "GetInstallPlan"

\* ------------------------------------------ claims on the retry loop
\* The backoff waits made since the first try of MonitoringFiles[f].
Sleeps(f) ==
    { i \in 1..Len(trace) :
        /\ trace[i].call = "Sleep"
        /\ \E j \in Attempts(f) : j < i }

\* C22: when ProvisionMonitoring has returned because ApplyFile failed on
\* all three tries of a file, exactly two backoff waits were made for that
\* file, each between two consecutive tries, and none after the last try.
C22_TwoBackoffWaits ==
    (op = "ProvisionMonitoring" /\ pc = "done") =>
      \A f \in 1..Len(MonitoringFiles) :
        ( /\ Cardinality(Attempts(f)) = retries
          /\ \A i \in Attempts(f) : trace[i].res = "err" ) =>
          /\ Cardinality(Sleeps(f)) = retries - 1
          /\ \A i \in Sleeps(f) : \E j \in Attempts(f) : i < j
          /\ Last(trace).call = "ApplyFile"

\* C23: ProvisionMonitoring applies its files in list order, each with a
\* retry budget of its own: a file is first tried only after every file
\* before it went through, it is tried at most three times whatever the
\* files before it took, and after the try that goes through the file is
\* not tried again and the next entry is the first try of the next file,
\* with no backoff wait in between.
C23_FilesInOrderFreshBudget ==
    op = "ProvisionMonitoring" =>
      /\ \A f \in 1..Len(MonitoringFiles) :
           /\ Attempts(f) # {} =>
                \A g \in 1..(f - 1) :
                  \E i \in Attempts(g) :
                    /\ trace[i].res = "ok"
                    /\ \A j \in Attempts(f) : i < j
           /\ Cardinality(Attempts(f)) <= retries
           /\ \A i \in Attempts(f) :
                trace[i].res = "ok" =>
                  /\ \A j \in Attempts(f) : j <= i
                  /\ i < Len(trace) =>
                       /\ f < Len(MonitoringFiles)
                       /\ trace[i + 1] = E("ApplyFile", MonitoringFiles[f + 1],
                                           trace[i + 1].res)
      /\ pc = "ApplyFile" =>
           /\ attempt = Cardinality(Attempts(path))
           /\ attempt < retries
      /\ (pc = "done" /\ ret = "err" /\ trace # <<>> /\ Last(trace).call = "Sleep") =>
           \E f \in 1..Len(MonitoringFiles) : Cardinality(Attempts(f)) = retries

\* The first two files each went through on their third try, and the third
\* file has been tried.
C23_Witness ==
    /\ op = "ProvisionMonitoring"
    /\ Cardinality(Attempts(1)) = retries
    /\ Cardinality(Attempts(2)) = retries
    /\ \E i \in Attempts(1) : trace[i].res = "ok"
    /\ \E i \in Attempts(2) : trace[i].res = "ok"
    /\ Attempts(3) # {}

\* ------------------------------------- claims on nodes with several taints
\* The taints of node i that the forbidden map does not hold: another key,
\* or one of its keys under an effect other than NoSchedule.
PassingTaints(i) ==
    { k \in 1..Len(nodes[i].taints) :
        LET t == nodes[i].taints[k]
        IN  ~ ( /\ t.key \in { "node.cloudprovider.kubernetes.io/uninitialized",
                               "node.kubernetes.io/unschedulable",
                               "node-role.kubernetes.io/master" }
                /\ t.effect = "NoSchedule" ) }

\* C24: a node with at least one taint is in the list GetWorkerNodes returns
\* as many times as it has taints that the forbidden map does not hold: a
\* node with a forbidden and another taint is there once, a node with two
\* taints that are not forbidden is there twice.
C24_OncePerPassingTaint ==
    (op = "GetWorkerNodes" /\ ret = "ok") =>
      \A i \in 1..Len(nodes) :
        Len(nodes[i].taints) >= 1 =>
          Occurrences(nodes[i].name) = Cardinality(PassingTaints(i))

\* Node 1 has a forbidden taint and another one, node 2 two taints that are
\* not forbidden: node 1 was returned once and node 2 twice.
C24_Witness ==
    /\ op = "GetWorkerNodes"
    /\ ret = "ok"
    /\ Len(nodes) = 2
    /\ nodes[1].taints = << [key |-> "node-role.kubernetes.io/master", effect |-> "NoSchedule"],
                            [key |-> "custom/foo", effect |-> "NoSchedule"] >>
    /\ nodes[2].taints = << [key |-> "custom/foo", effect |-> "NoSchedule"],
                            [key |-> "node-role.kubernetes.io/master", effect |-> "NoExecute"] >>
    /\ workers = <<1, 2, 2>>

\* ------------------------------------ claims on the bootstrap's waits
\* The Subscription resources of the three manifests the bootstrap applied,
\* in manifest order.
AppliedSubscriptions ==
    filterResources(files["crds.yaml"] \o files["olm.yaml"]
                        \o files["percona-dbaas-catalog.yaml"],
                    SubscriptionGVK)

IsCSVWait(e) == e.call = "DoCSVWait"

IsCSVKey(e) == e.call = "GetSubscriptionCSV"

\* C25: in a bootstrap that did not short-circuit, when the packageserver
\* rollout is waited for, every Subscription of the three applied manifests
\* has had its completion-record key resolved and its completion record
\* waited for with success, one wait per subscription and in manifest order;
\* a resolution or wait that failed ended the bootstrap with an error and
\* without the packageserver wait.
C25_EverySubscriptionWaited ==
    op = "InstallOLMOperator" =>
      /\ (\E i \in Calls("DoRolloutWait") : trace[i].arg = "packageserver") =>
           LET keys  == SelectSeq(trace, IsCSVKey)
               waits == SelectSeq(trace, IsCSVWait)
           IN  /\ Len(keys) = Len(AppliedSubscriptions)
               /\ Len(waits) = Len(AppliedSubscriptions)
               /\ \A k \in 1..Len(AppliedSubscriptions) :
                    /\ keys[k] = E("GetSubscriptionCSV", AppliedSubscriptions[k].name, "ok")
                    /\ waits[k] = E("DoCSVWait", CSVKey(AppliedSubscriptions[k].name), "ok")
      /\ \A i \in Calls("GetSubscriptionCSV") \cup Calls("DoCSVWait") :
           trace[i].res = "err" =>
             /\ pc = "done"
             /\ ret = "err"
             /\ \A j \in Calls("DoRolloutWait") : trace[j].arg # "packageserver"

\* ------------------------------------------ claims on the errors returned
\* The connector calls whose error only answers "is it there?": the probe
\* for the OperatorGroup and the probe for the olm-operator deployment.
PresenceProbes == {"GetOperatorGroup", "GetDeployment"}

\* C26: in InstallOperator, UpgradeOperator and InstallOLMOperator, a
\* connector call that returned an error is the last call made, the method
\* has returned an error, and that error carries the failed call as its
\* cause. The two presence probes are left aside here.
C26_ErrorsCarryCause ==
    op \in {"InstallOperator", "UpgradeOperator", "InstallOLMOperator"} =>
      \A i \in 1..Len(trace) :
        (trace[i].res = "err" /\ trace[i].call \notin PresenceProbes) =>
          /\ i = Len(trace)
          /\ pc = "done"
          /\ ret = "err"
          /\ reterr.cause = trace[i].call

\* -------------------------------------- claims on holding the lock
\* Caller c holds the lock, for reading or for writing.
Holds(c) == c \in readers \/ c \in writer

\* Caller c is at a Lock or RLock that cannot go through now.
Blocked(c) ==
    \/ At(c, "RLock") /\ ~CanRLock
    \/ At(c, "Lock") /\ ~CanLockAnnounce /\ ~CanLockAcquire(c)

\* C27: a caller whose method has returned holds nothing and waits for
\* nothing; a caller at a Lock or RLock does not hold the lock already; a
\* caller in InstallOperator holds the lock only from the Lock of the poll
\* condition to its Unlock, around GetSubscription, and never while it
\* waits for the next tick; and a caller that is blocked is blocked by
\* another caller that is not blocked itself.
C27_LockReleasedNoReentry ==
    \A c \in Callers :
      /\ lmethod[c] = "idle" => ~Holds(c) /\ c \notin wpending
      /\ (At(c, "Lock") \/ At(c, "RLock")) => ~Holds(c)
      /\ c \in wpending => At(c, "Lock")
      /\ (lmethod[c] = "InstallOperator" /\ Holds(c)) =>
           /\ c \in writer
           /\ \/ At(c, "Unlock")
              \/ At(c, "read") /\ Instr(c).name = "GetSubscription"
      /\ Blocked(c) =>
           \E d \in Callers :
             /\ d # c
             /\ Holds(d) \/ d \in wpending
             /\ ~Blocked(d)

\* One caller has left the poll of InstallOperator and fetches the install
\* plan with the lock released, while another holds the lock inside the
\* CreatePMMSecret of ProvisionMonitoring.
C27_Witness ==
    \E c, d \in Callers :
      /\ c # d
      /\ lmethod[c] = "InstallOperator"
      /\ At(c, "read")
      /\ Instr(c).name = "GetInstallPlan"
      /\ ~Holds(c)
      /\ lmethod[d] = "ProvisionMonitoring"
      /\ d \in writer
      /\ InCall(d, "write")

\* -------------------------------- claims on the operators installed
\* The operator each install step of ProvisionCluster announces.
OperatorOf(s) ==
    CASE s = "vm"    -> "victoriametrics-operator"
      [] s = "pxc"   -> "percona-xtradb-cluster-operator"
      [] s = "psmdb" -> "percona-server-mongodb-operator"
      [] s = "dbaas" -> "dbaas-operator"

IsInstall(e) == e.call = "InstallOperator"

\* C28: the calls of InstallOperator that ProvisionCluster makes carry
\* pairwise distinct operator names, each the name of the operator its step
\* announces, the PXC step the PXC operator's; a run in which every step
\* went through has made exactly four of them, for Victoria Metrics, PXC,
\* PSMDB and DBaaS in this order.
C28_FourDistinctOperators ==
    LET installs == SelectSeq(ptrace, IsInstall)
    IN  /\ \A i \in 1..Len(installs) :
             /\ installs[i].name = OperatorOf(installs[i].step)
             /\ \A j \in 1..Len(installs) :
                  i # j => installs[i].name # installs[j].name
        /\ (prov = "done" /\ pret = "ok") =>
             [ i \in 1..Len(installs) |-> installs[i].name ]
               = << "victoriametrics-operator", "percona-xtradb-cluster-operator",
                    "percona-server-mongodb-operator", "dbaas-operator" >>

====
